---- MODULE Spec2Model ----
(***************************************************************************)
(* Globe visualizer: the animation queue engine (AnimationManager driving  *)
(* tween.js tweens), the responsive breakpoint resolver (ResponsiveManager)*)
(* and their wiring (ResponsiveGlobeVisualizer).                           *)
(*                                                                         *)
(* Numbers are fixed point integers: times are milliseconds, imageScale is *)
(* in hundredths, rotationSpeed in ten-thousandths, lengths in tenths.     *)
(***************************************************************************)
EXTENDS Integers, Sequences, FiniteSets, TLC

VARIABLES
    queue,              \* AnimationManager.queue: steps waiting to start
    currentAnimation,   \* AnimationManager.currentAnimation: id of the tween, or Null
    lastImageScale,     \* AnimationManager.lastImageScale
    lastRotationSpeed,  \* AnimationManager.lastRotationSpeed
    isResponsiveMode,   \* AnimationManager.isResponsiveMode
    tweens,             \* the tweens playing in the global TWEEN group
    target,             \* the sphere's transform: scale, position, rotation
    sizeMultiplier,     \* ImageProjector.sizeMultiplier
    rotationSpeed,      \* GlobeVisualizer.continuousRotation.speed
    breakpoints,        \* config.responsive.breakpoints, in listing order
    innerWidth,         \* window.innerWidth
    currentBreakpoint,  \* ResponsiveManager.currentBreakpoint
    resizeTimeout,      \* ms left of the resize debounce timer, or Null
    settleTimers,       \* ms left of each pending onBreakpointChange timer
    nextId,             \* history: id the next enqueued step gets
    started,            \* history: ids of the steps started, in order
    completed,          \* history: ids whose onComplete callback fired, in order
    finished,           \* history: ids of the steps whose tween completed
    cancelled,          \* history: ids in flight or queued when stop() ran
    withCallback,       \* history: ids of the enqueued steps that carry onComplete
    seqPlays,           \* history: responsive sequences enqueued since the last change
    earlyStart,         \* history: a step began while a settle timer was pending
    tickLog,            \* history: what each tick of the latest update() wrote
    nCalls,             \* history: API calls enqueuing steps made so far
    nResizes,           \* history: resize events so far
    sinceEvent,         \* history: ms since the latest resize event of a burst, or Null
    heldBefore,         \* history: the breakpoint held when the burst began
    callbacks,          \* history: <<new, previous>> of each transition callback
    burstLen,           \* history: resize events of the latest burst
    projectionData,     \* ImageProjector.projectionData: the registered records
    projectedMeshes,    \* ImageProjector.projectedMeshes: urls of the meshes made
    sphereMeshes,       \* urls of the meshes that are children of the sphere
    released,           \* urls of the meshes whose geometry was disposed
    projectorSphere,    \* ImageProjector.sphere is set (not null)
    loads,              \* per image: "none", "loading", "loaded", "failed", "threw"
    promises,           \* per image: state of the promise projectImage returned
    lastMorphed,        \* history: urls the latest setSizeMultiplier morphed
    lateMorph,          \* history: the multiplier was changed after dispose()
    nBatches,           \* history: projectImages calls so far
    imageUrls,          \* the imageUrls array handed to generateSphericalDistribution
    configs,            \* the configurations it returned
    imagesPerParallel,  \* its per-band counts, band 0 (southernmost) first
    planned,            \* history: it has run on imageUrls
    failedStarts,       \* history: id and cause of each step playNext threw on
    raised,             \* history: the latest engine operation threw to its caller
    destroyed,          \* destroy() of the API object has run
    frameLoop,          \* the render loop has a frame requested
    callbackTimer,      \* the completion-callback timer: "armed" or "fired"
    clearTimer,         \* GlobeVisualizer.clearTimer is a running interval
    trailClears,        \* history: times the interval called clearTrails
    listening,          \* ResponsiveManager's resize listeners are attached
    cleanups,           \* history: cleanup operations destroy() carried out
    warnings,           \* history: try blocks of destroy() that logged a warning
    failedCleanup,      \* history: the cleanup operation that threw, or "none"
    sinceInit,          \* ms since initiateGlobe, as far as the callback timer runs
    continuousRotation, \* GlobeVisualizer.continuousRotation.y
    isSequenceRunning,  \* EnhancedAnimationManager.isSequenceRunning
    totalAnimationsInSequence,      \* EnhancedAnimationManager's counters
    completedAnimationsInSequence,
    wrappers,           \* tracking wrappers around onComplete of each step object of a sequence array
    layers,             \* tracking wrappers around onComplete of each queued step, by id
    played,             \* history: the ids each playSequence call queued, and whether stop() followed
    sequenceCompletions \* history: each run of the sequence-completion callbacks

vars == <<queue, currentAnimation, lastImageScale, lastRotationSpeed,
          isResponsiveMode, tweens, target, sizeMultiplier, rotationSpeed,
          breakpoints, innerWidth, currentBreakpoint, resizeTimeout,
          settleTimers, nextId, started, completed, finished, cancelled,
          withCallback, seqPlays, earlyStart, tickLog, nCalls, nResizes,
          sinceEvent, heldBefore, callbacks, burstLen, projectionData,
          projectedMeshes, sphereMeshes, released, projectorSphere, loads,
          promises, lastMorphed, lateMorph, nBatches, imageUrls, configs,
          imagesPerParallel, planned, failedStarts, raised, destroyed,
          frameLoop, callbackTimer, clearTimer, trailClears, listening,
          cleanups, warnings, failedCleanup, sinceInit, continuousRotation,
          isSequenceRunning, totalAnimationsInSequence,
          completedAnimationsInSequence, wrappers, layers, played,
          sequenceCompletions>>

\* null / undefined
Null == 0 - 1

(***************************************************************************)
(* Bounds of the model.                                                    *)
(***************************************************************************)
MaxCalls == 1       \* add / playSequence / addAnimation calls in a run
MaxResizes == 1     \* resize events in a run
MaxEvents == 3      \* resize events in a run of bursts
MaxBatches == 1     \* projectImages calls in a run
MaxFaultCalls == 2  \* enqueuing calls in a run with malformed steps
MaxClears == 1      \* runs of the trail-clear interval
MaxAngle == 20      \* largest continuousRotation.y a run reaches
MaxTrackedCalls == 2 \* add / playSequence calls on the tracking manager in a run
MaxImages == 72     \* length of the imageUrls array

(***************************************************************************)
(* Program constants.                                                      *)
(***************************************************************************)
DebounceMs == 150   \* ResponsiveManager.handleResize debounce
SettleMs == 100     \* AnimationManager.onBreakpointChange delay

\* totalAnimationTime (10500 ms) on the scaled clock of the configured
\* sequences: longer than a sequence played from start to end.
TotalAnimationTime == 250

\* The clock advances in steps of half the settle delay.
Quantum == SettleMs \div 2

Min(a, b) == IF a < b THEN a ELSE b
Max(a, b) == IF a > b THEN a ELSE b

Axes == {"x", "y", "z"}

\* Object.assign(base, delta) on the keys the snapshot holds.
Assign(base, delta) ==
    [k \in DOMAIN base |-> IF k \in DOMAIN delta THEN delta[k] ELSE base[k]]

Has(obj, key) == key \in DOMAIN obj

Range(seq) == {seq[i] : i \in 1..Len(seq)}

(***************************************************************************)
(* Configuration (config.js): the keyframe timing table, the breakpoint    *)
(* table and the per-breakpoint settings. Durations are scaled to the      *)
(* model's clock; names, delays' order and easings follow the file.        *)
(***************************************************************************)
KeyframeTiming ==
    [phase1 |-> [duration |-> 0, delay |-> 0, easing |-> "Linear.None"],
     phase2 |-> [duration |-> 100, delay |-> 0, easing |-> "Quadratic.InOut"],
     phase3 |-> [duration |-> 50, delay |-> 50, easing |-> "Quadratic.InOut"]]

ConfigBreakpoints ==
    << <<"mobile", 0>>, <<"tablet", 768>>, <<"desktop", 1024>>,
       <<"widescreen", 1440>> >>

\* config.globe.rotationSpeed
BaseRotationSpeed == 3

\* A step without explicit timing of its own gets this placeholder timing;
\* it is replaced by the keyframe's whenever the keyframe resolves.
SeqStep(tgt, kf) ==
    [target |-> tgt, duration |-> 50, delay |-> 0, easing |-> "Linear.None",
     useKeyframe |-> kf, onComplete |-> FALSE, origin |-> "config", id |-> 0]

XYZ(a, b, c) == [x |-> a, y |-> b, z |-> c]

\* The first two steps of each breakpoint's animationSequence, and its
\* globe.rotationSpeed override.
ResponsiveConfigs ==
    [mobile |->
        [globe |-> [rotationSpeed |-> 7],
         animationSequence |->
            << SeqStep([scale |-> XYZ(0, 0, 0), position |-> XYZ(0, -30, 0),
                        imageScale |-> 30], "phase1"),
               SeqStep([scale |-> XYZ(25, 25, 25), position |-> XYZ(0, 10, 0),
                        imageScale |-> 30, rotationSpeed |-> 40],
                       "phase2") >>],
     tablet |->
        [globe |-> [rotationSpeed |-> 4],
         animationSequence |->
            << SeqStep([scale |-> XYZ(0, 0, 0), position |-> XYZ(-40, 0, 0),
                        imageScale |-> 35], "phase1"),
               SeqStep([scale |-> XYZ(28, 28, 28), position |-> XYZ(-15, 0, 0),
                        imageScale |-> 35, rotationSpeed |-> 15],
                       "phase2") >>],
     desktop |->
        [globe |-> << >>,
         animationSequence |->
            << SeqStep([scale |-> XYZ(0, 0, 0), position |-> XYZ(-80, 0, 0),
                        imageScale |-> 40], "phase1"),
               SeqStep([scale |-> XYZ(30, 30, 30), position |-> XYZ(-30, 0, 0),
                        imageScale |-> 40, rotationSpeed |-> 10],
                       "phase2") >>],
     widescreen |->
        [globe |-> [rotationSpeed |-> 2],
         animationSequence |->
            << SeqStep([scale |-> XYZ(0, 0, 0), position |-> XYZ(-120, 0, 0),
                        imageScale |-> 50], "phase1"),
               SeqStep([scale |-> XYZ(35, 35, 35), position |-> XYZ(-40, 0, 0),
                        imageScale |-> 50, rotationSpeed |-> 8],
                       "phase2") >>]]

(***************************************************************************)
(* ResponsiveManager                                                       *)
(***************************************************************************)
\* Array.prototype.sort with (a, b) => b - a: stable, descending by minimum.
RECURSIVE InsertDesc(_, _)
InsertDesc(sorted, entry) ==
    IF sorted = << >> THEN << entry >>
    ELSE IF Head(sorted)[2] >= entry[2]
         THEN << Head(sorted) >> \o InsertDesc(Tail(sorted), entry)
         ELSE << entry >> \o sorted

RECURSIVE SortDesc(_)
SortDesc(entries) ==
    IF entries = << >> THEN << >>
    ELSE InsertDesc(SortDesc(SubSeq(entries, 1, Len(entries) - 1)),
                    entries[Len(entries)])

\* width > minWidth instead of width >= minWidth
RECURSIVE FirstAbove(_, _, _)
FirstAbove(sorted, width, default) ==
    IF sorted = << >> THEN default
    ELSE IF width > Head(sorted)[2] THEN Head(sorted)[1]
         ELSE FirstAbove(Tail(sorted), width, default)

RECURSIVE FirstQualifying(_, _, _)
FirstQualifying(sorted, width, default) ==
    IF sorted = << >> THEN default
    ELSE IF width >= Head(sorted)[2] THEN Head(sorted)[1]
         ELSE FirstQualifying(Tail(sorted), width, default)

\* The breakpoint updateBreakpoint() stores for a table and a viewport width.
updateBreakpoint(table, width) ==
    FirstQualifying(SortDesc(table), width, "mobile")

getCurrentConfig(bp) ==
    IF bp \in DOMAIN ResponsiveConfigs THEN ResponsiveConfigs[bp]
    ELSE ResponsiveConfigs.mobile

getCurrentAnimationSequence(bp) == getCurrentConfig(bp).animationSequence

\* null when the name is not in the table
getKeyframeTiming(keyframeName) ==
    IF keyframeName \in DOMAIN KeyframeTiming
    THEN [found |-> TRUE, timing |-> KeyframeTiming[keyframeName]]
    ELSE [found |-> FALSE]

getResponsiveGlobeConfig(bp) ==
    LET g == getCurrentConfig(bp).globe
    IN  [rotationSpeed |-> IF Has(g, "rotationSpeed") THEN g.rotationSpeed
                           ELSE BaseRotationSpeed]

(***************************************************************************)
(* tween.js: easing curves and interpolation. An easing value is the       *)
(* fraction <<num, den>>; elapsed is the fraction k[1] / k[2] in [0, 1].   *)
(***************************************************************************)
Easing(name, k) ==
    IF k[1] >= k[2] THEN << 1, 1 >>
    ELSE IF name = "Linear.None" THEN k
    ELSE \* Quadratic.InOut
         IF 2 * k[1] < k[2]
         THEN << 2 * k[1] * k[1], k[2] * k[2] >>
         ELSE LET j == 2 * k[1] - k[2]
              IN  << k[2] * k[2] + 2 * k[2] * j - j * j, 2 * k[2] * k[2] >>

\* start + (end - start) * value
Lerp(s, e, v) == s + ((e - s) * v[1]) \div v[2]

LerpXYZ(s, e, v) == [a \in Axes |-> Lerp(s[a], e[a], v)]

\* Tween._updateProperties: every property of the snapshot, nested ones too.
Interpolate(valuesStart, valuesEnd, v) ==
    [scale |-> LerpXYZ(valuesStart.scale, valuesEnd.scale, v),
     position |-> LerpXYZ(valuesStart.position, valuesEnd.position, v),
     rotation |-> LerpXYZ(valuesStart.rotation, valuesEnd.rotation, v),
     imageScale |-> Lerp(valuesStart.imageScale, valuesEnd.imageScale, v),
     rotationSpeed |->
         Lerp(valuesStart.rotationSpeed, valuesEnd.rotationSpeed, v)]

(***************************************************************************)
(* AnimationManager. Operations are functions of the record e of the       *)
(* fields a handler can change; the actions below store the result.        *)
(***************************************************************************)
Eng ==
    [queue |-> queue, currentAnimation |-> currentAnimation,
     lastImageScale |-> lastImageScale,
     lastRotationSpeed |-> lastRotationSpeed,
     isResponsiveMode |-> isResponsiveMode, tweens |-> tweens,
     target |-> target, sizeMultiplier |-> sizeMultiplier,
     rotationSpeed |-> rotationSpeed, settleTimers |-> settleTimers,
     nextId |-> nextId, started |-> started, completed |-> completed,
     finished |-> finished, cancelled |-> cancelled,
     withCallback |-> withCallback, earlyStart |-> earlyStart,
     tickLog |-> << >>, failedStarts |-> failedStarts, threw |-> FALSE]

Commit(e) ==
    /\ queue' = e.queue
    /\ currentAnimation' = e.currentAnimation
    /\ lastImageScale' = e.lastImageScale
    /\ lastRotationSpeed' = e.lastRotationSpeed
    /\ isResponsiveMode' = e.isResponsiveMode
    /\ tweens' = e.tweens
    /\ target' = e.target
    /\ sizeMultiplier' = e.sizeMultiplier
    /\ rotationSpeed' = e.rotationSpeed
    /\ settleTimers' = e.settleTimers
    /\ nextId' = e.nextId
    /\ started' = e.started
    /\ completed' = e.completed
    /\ finished' = e.finished
    /\ cancelled' = e.cancelled
    /\ withCallback' = e.withCallback
    /\ earlyStart' = e.earlyStart
    /\ tickLog' = e.tickLog
    /\ failedStarts' = e.failedStarts
    /\ raised' = e.threw

\* setSizeMultiplier without its test: every call counts as a change
MorphAlways(current, multiplier) == TRUE

\* setSizeMultiplier: if (this.sizeMultiplier !== multiplier)
MorphNeeded(current, multiplier) == current # multiplier

\* ImageProjector.setSizeMultiplier
setSizeMultiplier(e, multiplier) ==
    IF MorphNeeded(e.sizeMultiplier, multiplier)
    THEN [e EXCEPT !.sizeMultiplier = multiplier]
    ELSE e

\* The snapshot playNext takes of the target and the two side channels.
CurrentState(e) ==
    [scale |-> e.target.scale, position |-> e.target.position,
     rotation |-> e.target.rotation, imageScale |-> e.sizeMultiplier,
     rotationSpeed |-> e.rotationSpeed]

\* The snapshot overlaid with the keys the step's target names.
TargetState(currentState, t) ==
    [scale |-> IF Has(t, "scale") THEN Assign(currentState.scale, t.scale)
               ELSE currentState.scale,
     position |-> IF Has(t, "position")
                  THEN Assign(currentState.position, t.position)
                  ELSE currentState.position,
     rotation |->
        IF Has(t, "rotation")
        THEN [x |-> IF Has(t.rotation, "x") THEN t.rotation.x
                    ELSE currentState.rotation.x,
              y |-> currentState.rotation.y,
              z |-> IF Has(t.rotation, "z") THEN t.rotation.z
                    ELSE currentState.rotation.z]
        ELSE currentState.rotation,
     imageScale |-> IF Has(t, "imageScale") THEN t.imageScale
                    ELSE currentState.imageScale,
     rotationSpeed |-> IF Has(t, "rotationSpeed") THEN t.rotationSpeed
                       ELSE currentState.rotationSpeed]

\* new TWEEN.Tween(currentState).to(targetState, duration)...start(): the
\* tween joins the group; t is the time since start() was called.
StartTween(e, params) ==
    LET currentState == CurrentState(e)
        tween == [id |-> params.id, params |-> params,
                  valuesStart |-> currentState,
                  valuesEnd |-> TargetState(currentState, params.target),
                  t |-> 0]
    IN  [e EXCEPT !.tweens = @ \cup {tween},
                  !.currentAnimation = params.id,
                  !.started = Append(@, params.id),
                  !.earlyStart = @ \/ (params.origin = "breakpoint"
                                       /\ e.settleTimers # << >>)]

\* queue.pop() instead of queue.shift()
PlayNextFromTail(e) ==
    IF e.queue = << >> THEN [e EXCEPT !.currentAnimation = Null]
    ELSE StartTween([e EXCEPT !.queue = SubSeq(@, 1, Len(@) - 1)],
                    e.queue[Len(e.queue)])

\* TWEEN.Easing[type][style] is read without a TypeError
EasingKnown(name) == name \in {"Linear.None", "Quadratic.InOut"}

\* What playNext throws on: the easing is looked up before the target is read.
StartFailure(params) ==
    [id |-> params.id,
     cause |-> IF ~EasingKnown(params.easing) THEN "easing" ELSE "target"]

\* playNext that looks at the head before it takes it off the queue
PlayNextKeepsFailedHead(e) ==
    IF e.queue = << >> THEN [e EXCEPT !.currentAnimation = Null]
    ELSE IF ~EasingKnown(Head(e.queue).easing) \/ ~Has(Head(e.queue), "target")
         THEN [e EXCEPT !.threw = TRUE,
                        !.failedStarts = @ \cup {StartFailure(Head(e.queue))}]
         ELSE StartTween([e EXCEPT !.queue = Tail(@)], Head(e.queue))

\* The head leaves the queue first; getEasingFunction throws on an easing
\* type that TWEEN.Easing lacks, params.target.scale on a missing target.
playNext(e) ==
    IF e.queue = << >> THEN [e EXCEPT !.currentAnimation = Null]
    ELSE LET params == Head(e.queue)
             e1 == [e EXCEPT !.queue = Tail(@)]
         IN  IF ~EasingKnown(params.easing) \/ ~Has(params, "target")
             THEN [e1 EXCEPT !.threw = TRUE,
                             !.failedStarts = @ \cup {StartFailure(params)}]
             ELSE StartTween(e1, params)

\* the override applied without looking at isResponsiveMode
ResolveAlways(e, params) ==
    IF params.useKeyframe # ""
    THEN LET keyframeTiming == getKeyframeTiming(params.useKeyframe)
         IN  IF keyframeTiming.found
             THEN [params EXCEPT !.duration = keyframeTiming.timing.duration,
                                 !.easing = keyframeTiming.timing.easing,
                                 !.delay = keyframeTiming.timing.delay]
             ELSE params
    ELSE params

\* The timing override add() and playSequence() both apply.
ResolveKeyframe(e, params) ==
    IF params.useKeyframe # "" /\ e.isResponsiveMode
    THEN LET keyframeTiming == getKeyframeTiming(params.useKeyframe)
         IN  IF keyframeTiming.found
             THEN [params EXCEPT !.duration = keyframeTiming.timing.duration,
                                 !.easing = keyframeTiming.timing.easing,
                                 !.delay = keyframeTiming.timing.delay]
             ELSE params
    ELSE params

\* queue.push(params); the step gets its id here.
Push(e, params) ==
    [e EXCEPT !.queue = Append(@, [params EXCEPT !.id = e.nextId]),
              !.nextId = @ + 1,
              !.withCallback = IF params.onComplete THEN @ \cup {e.nextId}
                               ELSE @]

\* add() starting the new step whether or not a step is playing
AddStartsAlways(e, params) == playNext(Push(e, ResolveKeyframe(e, params)))

\* queue.unshift instead of queue.push
AddAtHead(e, params) ==
    LET e0 == Push(e, ResolveKeyframe(e, params))
        e1 == [e0 EXCEPT !.queue = << e0.queue[Len(e0.queue)] >>
                                     \o SubSeq(e0.queue, 1, Len(e0.queue) - 1)]
    IN  IF e1.currentAnimation = Null THEN playNext(e1) ELSE e1

add(e, params) ==
    LET e1 == Push(e, ResolveKeyframe(e, params))
    IN  IF e1.currentAnimation = Null THEN playNext(e1) ELSE e1

\* addAnimation(...): the step is queued and not started.
addAnimation(e, params) == Push(e, ResolveKeyframe(e, params))

RECURSIVE playSequence(_, _)
playSequence(e, sequence) ==
    IF sequence = << >> \/ e.threw THEN e
    ELSE playSequence(add(e, ResolveKeyframe(e, Head(sequence))),
                      Tail(sequence))

\* Tween.stop(): a playing tween leaves the group.
TweenStop(e, id) == [e EXCEPT !.tweens = {tw \in @ : tw.id # id}]

QueuedIds(e) == {e.queue[i].id : i \in 1..Len(e.queue)}

\* stop() forgetting the tween without stopping it
StopLeavesTween(e) ==
    [e EXCEPT !.currentAnimation = Null, !.queue = << >>,
              !.cancelled = @ \cup QueuedIds(e)
                              \cup ({e.currentAnimation} \ {Null})]

\* stop() without this.queue = []
StopKeepsQueue(e) ==
    LET e1 == IF e.currentAnimation # Null
              THEN [TweenStop(e, e.currentAnimation)
                       EXCEPT !.currentAnimation = Null]
              ELSE e
    IN  [e1 EXCEPT !.cancelled = @ \cup QueuedIds(e)
                                   \cup ({e.currentAnimation} \ {Null})]

stop(e) ==
    LET e1 == IF e.currentAnimation # Null
              THEN [TweenStop(e, e.currentAnimation)
                       EXCEPT !.currentAnimation = Null]
              ELSE e
    IN  [e1 EXCEPT !.queue = << >>,
                   !.cancelled = @ \cup QueuedIds(e)
                                   \cup ({e.currentAnimation} \ {Null})]

\* onUpdate that copies the whole interpolated rotation to the target
OnUpdateWritesY(e, obj) ==
    LET e1 == [e EXCEPT !.target =
                  [scale |-> obj.scale, position |-> obj.position,
                   rotation |-> obj.rotation]]
        e2 == IF e1.lastImageScale # obj.imageScale
              THEN [setSizeMultiplier(e1, obj.imageScale)
                       EXCEPT !.lastImageScale = obj.imageScale]
              ELSE e1
    IN  IF e2.lastRotationSpeed # obj.rotationSpeed
        THEN [e2 EXCEPT !.rotationSpeed = obj.rotationSpeed,
                        !.lastRotationSpeed = obj.rotationSpeed]
        ELSE e2

\* The onUpdate callback of a step's tween; obj is the interpolated snapshot.
onUpdate(e, obj) ==
    LET e1 == [e EXCEPT !.target =
                  [scale |-> obj.scale, position |-> obj.position,
                   rotation |-> [x |-> obj.rotation.x,
                                 y |-> e.target.rotation.y,
                                 z |-> obj.rotation.z]]]
        e2 == IF e1.lastImageScale # obj.imageScale
              THEN [setSizeMultiplier(e1, obj.imageScale)
                       EXCEPT !.lastImageScale = obj.imageScale]
              ELSE e1
    IN  IF e2.lastRotationSpeed # obj.rotationSpeed
        THEN [e2 EXCEPT !.rotationSpeed = obj.rotationSpeed,
                        !.lastRotationSpeed = obj.rotationSpeed]
        ELSE e2

\* What a tick of tween tw left in the target and the side channels.
Observe(e, tw, final) ==
    [e EXCEPT !.tickLog = Append(@,
        [named |-> tw.params.target, valuesStart |-> tw.valuesStart,
         final |-> final, target |-> e.target,
         imageScale |-> e.sizeMultiplier, rotationSpeed |-> e.rotationSpeed])]

\* onComplete that fires the callback and does not advance the queue
OnCompleteNoAdvance(e, params) ==
    LET e1 == IF params.onComplete
              THEN [e EXCEPT !.completed = Append(@, params.id)]
              ELSE e
    IN  [e1 EXCEPT !.finished = Append(@, params.id)]

\* The onComplete callback of a step's tween.
onComplete(e, params) ==
    LET e1 == IF params.onComplete
              THEN [e EXCEPT !.completed = Append(@, params.id)]
              ELSE e
    IN  playNext([e1 EXCEPT !.finished = Append(@, params.id)])

\* Tween.update(time): nothing before the start time; then interpolate, call
\* onUpdate and, at elapsed = 1, onComplete, after which the tween leaves
\* the group. When onComplete throws the tween has not left the group yet.
TweenUpdate(e, tw) ==
    IF tw.t < tw.params.delay THEN e
    ELSE LET d == tw.params.duration
             el == tw.t - tw.params.delay
             k == IF d = 0 \/ el > d THEN << 1, 1 >> ELSE << el, d >>
             obj == Interpolate(tw.valuesStart, tw.valuesEnd,
                                Easing(tw.params.easing, k))
             e1 == Observe(onUpdate(e, obj), tw, k[1] = k[2])
             e2 == onComplete(e1, tw.params)
         IN  IF k[1] = k[2]
             THEN IF e2.threw THEN e2 ELSE TweenStop(e2, tw.id)
             ELSE e1

RECURSIVE SortedIds(_)
SortedIds(ids) ==
    IF ids = {} THEN << >>
    ELSE LET m == CHOOSE i \in ids : \A j \in ids : i <= j
         IN  << m >> \o SortedIds(ids \ {m})

TweenIds(e) == {tw.id : tw \in e.tweens}

\* Group.update(time): every tween of the group in insertion order. A tween
\* started during the update is updated in the same call when its start
\* time is not later than `time`, that is when the clock reads the same
\* (sameInstant) and it has no delay to wait for.
RECURSIVE GroupUpdate(_, _, _)
GroupUpdate(e, todo, sameInstant) ==
    IF todo = << >> \/ e.threw THEN e
    ELSE IF Head(todo) \notin TweenIds(e)
         THEN GroupUpdate(e, Tail(todo), sameInstant)
         ELSE LET tw == CHOOSE x \in e.tweens : x.id = Head(todo)
                  e1 == TweenUpdate(e, tw)
                  added == IF sameInstant THEN TweenIds(e1) \ TweenIds(e)
                           ELSE {}
              IN  GroupUpdate(e1, Tail(todo) \o SortedIds(added), sameInstant)

\* AnimationManager.update(): TWEEN.update()
update(e, sameInstant) == GroupUpdate(e, SortedIds(TweenIds(e)), sameInstant)

\* The steps of a configured sequence, marked with what had them played.
Tagged(sequence, origin) ==
    [i \in 1..Len(sequence) |-> [sequence[i] EXCEPT !.origin = origin]]

playResponsiveSequence(e, bp, origin) ==
    IF ~e.isResponsiveMode THEN e
    ELSE playSequence(e, Tagged(getCurrentAnimationSequence(bp), origin))

\* AnimationManager.onBreakpointChange: stop, and play the sequence of the
\* breakpoint after the settle delay.
onBreakpointChange(e) ==
    IF ~e.isResponsiveMode THEN e
    ELSE [stop(e) EXCEPT !.settleTimers = Append(@, SettleMs)]

\* ImageProjector size per breakpoint (updateComponentsForBreakpoint).
BreakpointSizeMultiplier(bp) ==
    CASE bp = "mobile" -> 70
      [] bp = "tablet" -> 85
      [] bp = "widescreen" -> 120
      [] OTHER -> 100

\* ResponsiveGlobeVisualizer.onBreakpointChange, the transition callback.
TransitionCallback(e, bp) ==
    LET e1 == [e EXCEPT !.rotationSpeed =
                            getResponsiveGlobeConfig(bp).rotationSpeed]
        e2 == onBreakpointChange(e1)
    IN  setSizeMultiplier(e2, BreakpointSizeMultiplier(bp))

\* ResponsiveManager.restartAnimations
restartAnimations(e, bp) ==
    playSequence(stop(e),
                 Tagged(getCurrentAnimationSequence(bp), "breakpoint"))

(***************************************************************************)
(* ImageProjector. Lengths on the sphere are in hundredths of the unit of  *)
(* targetSize, multipliers in hundredths. A factor is the fraction         *)
(* <<num, den>>, applied by multiplying before dividing. The target sizes  *)
(* are multiples of twelve so that the divisions of the plane into         *)
(* segments are exact, as they are (to rounding) in floating point.        *)
(***************************************************************************)
Images == {"a", "b", "c"}

\* What the caller passes for an image, and the aspect its file has.
ImageConfigs ==
    [a |-> [imageUrl |-> "a", targetSize |-> 12,
            position |-> [lat |-> 0, lng |-> 0],
            alignment |-> [x |-> 0, y |-> 0], aspect |-> 1],
     b |-> [imageUrl |-> "b", targetSize |-> 12,
            position |-> [lat |-> 30, lng |-> 90],
            alignment |-> [x |-> 1, y |-> 0 - 1], aspect |-> 2],
     c |-> [imageUrl |-> "c", targetSize |-> 24,
            position |-> [lat |-> 0 - 45, lng |-> 200],
            alignment |-> [x |-> 0 - 1, y |-> 0], aspect |-> 1]]

\* segments in new THREE.PlaneGeometry(w, h, segments, segments)
Segments == 2

\* The vertices of the flat plane, row by row from the top left.
PlaneGeometry(w, h) ==
    [i \in 1..((Segments + 1) * (Segments + 1)) |->
        [x |-> (((i - 1) % (Segments + 1)) * w) \div Segments - w \div 2,
         y |-> h \div 2 - (((i - 1) \div (Segments + 1)) * h) \div Segments]]

\* The point of the sphere an aligned local coordinate lands on: the same
\* computation (phi/theta, Cartesian conversion, hashed z-shift) in
\* projectImage and in updateGeometryForSize, a function of these four.
ProjectOntoSphere(position, imageUrl, alignedX, alignedY) ==
    [position |-> position, imageUrl |-> imageUrl,
     alignedX |-> alignedX, alignedY |-> alignedY]

Scale(local, factor) == (local * factor[1]) \div factor[2]

\* The loader's callback in projectImage: the record it registers.
projectImage(cfg, multiplier) ==
    LET projWidth == cfg.targetSize * multiplier * cfg.aspect
        projHeight == cfg.targetSize * multiplier
        originalVertices == PlaneGeometry(projWidth, projHeight)
        alignmentOffsetX == ((0 - cfg.alignment.x) * projWidth) \div 2
        alignmentOffsetY == ((0 - cfg.alignment.y) * projHeight) \div 2
    IN  [imageUrl |-> cfg.imageUrl,
         originalTargetSize |-> cfg.targetSize,
         position |-> cfg.position,
         alignment |-> cfg.alignment,
         aspect |-> cfg.aspect,
         originalVertices |-> originalVertices,
         originalWidth |-> projWidth,
         originalHeight |-> projHeight,
         createdAt |-> multiplier,
         vertices |-> [i \in DOMAIN originalVertices |->
                          ProjectOntoSphere(cfg.position, cfg.imageUrl,
                              originalVertices[i].x + alignmentOffsetX,
                              originalVertices[i].y + alignmentOffsetY)]]

\* the original vertices scaled by the multiplier alone, as if every mesh
\* had been created at multiplier 1.0
MorphFromNominal(data, multiplier) ==
    LET projWidth == data.originalTargetSize * multiplier * data.aspect
        projHeight == data.originalTargetSize * multiplier
        alignmentOffsetX == ((0 - data.alignment.x) * projWidth) \div 2
        alignmentOffsetY == ((0 - data.alignment.y) * projHeight) \div 2
    IN  [i \in DOMAIN data.originalVertices |->
            ProjectOntoSphere(data.position, data.imageUrl,
                Scale(data.originalVertices[i].x, <<multiplier, 100>>)
                    + alignmentOffsetX,
                Scale(data.originalVertices[i].y, <<multiplier, 100>>)
                    + alignmentOffsetY)]

\* The vertex positions updateGeometryForSize writes for a record.
updateGeometryForSize(data, multiplier) ==
    LET projWidth == data.originalTargetSize * multiplier * data.aspect
        projHeight == data.originalTargetSize * multiplier
        alignmentOffsetX == ((0 - data.alignment.x) * projWidth) \div 2
        alignmentOffsetY == ((0 - data.alignment.y) * projHeight) \div 2
    IN  [i \in DOMAIN data.originalVertices |->
            ProjectOntoSphere(data.position, data.imageUrl,
                Scale(data.originalVertices[i].x,
                      <<projWidth, data.originalWidth>>) + alignmentOffsetX,
                Scale(data.originalVertices[i].y,
                      <<projHeight, data.originalHeight>>) + alignmentOffsetY)]

\* a morph pass that reaches only the record registered first
ReprojectFirstOnly(registry, multiplier) ==
    [i \in DOMAIN registry |->
        IF i = 1
        THEN [registry[i] EXCEPT
                 !.vertices = updateGeometryForSize(registry[i], multiplier)]
        ELSE registry[i]]

\* reprojectAllImages(): every registered record is morphed.
reprojectAllImages(registry, multiplier) ==
    [i \in DOMAIN registry |->
        [registry[i] EXCEPT
            !.vertices = updateGeometryForSize(registry[i], multiplier)]]

\* Math.ceil(Math.sqrt(n))
CeilSqrt(n) == CHOOSE k \in 0..n : k * k >= n /\ (k = 0 \/ (k - 1) * (k - 1) < n)

\* Math.ceil(a / b)
CeilDiv(a, b) == (a + b - 1) \div b

MaxParallels == 7

NumParallels(n) == Min(CeilSqrt(n), MaxParallels)

\* parallelOrder: bands from the middle outwards, alternately up and down.
ParallelOrder(numParallels) ==
    [k \in 1..numParallels |->
        LET i == k - 1
        IN  IF i % 2 = 0
            THEN numParallels \div 2 + (i + 1) \div 2
            ELSE numParallels \div 2 - (i + 1) \div 2]

\* Math.cos(latitude * DEGREES_TO_RADIANS) in millionths, for the latitude
\* -90 + (180 / (numParallels + 1)) * (parallel + 1) of each band.
CosMillionths ==
    << <<1000000>>,
       <<866025, 866025>>,
       <<707107, 1000000, 707107>>,
       <<587785, 951057, 951057, 587785>>,
       <<500000, 866025, 1000000, 866025, 500000>>,
       <<433884, 781831, 974928, 974928, 781831, 433884>>,
       <<382683, 707107, 923880, 1000000, 923880, 707107, 382683>> >>

\* Math.max(MIN_IMAGES_PER_PARALLEL, Math.floor(base * circumferenceRatio))
MaxImagesInParallel(base, numParallels, parallel) ==
    Max(2, (base * CosMillionths[numParallels][parallel + 1]) \div 1000000)

BASE_IMAGES_PER_PARALLEL == 15
BASE_PARALLEL_MULTIPLIER == 12

\* The while loop: a share of what remains for each band, up to its maximum.
RECURSIVE FirstPass(_, _, _, _)
FirstPass(numParallels, counts, remainingImages, currentParallel) ==
    IF remainingImages > 0 /\ currentParallel < numParallels
    THEN LET parallel ==
                 ParallelOrder(numParallels)[(currentParallel % numParallels) + 1]
             remainingParallels == numParallels - currentParallel
             imagesForThisParallel ==
                 Min(MaxImagesInParallel(BASE_IMAGES_PER_PARALLEL,
                                         numParallels, parallel),
                     CeilDiv(remainingImages, remainingParallels))
         IN  FirstPass(numParallels,
                       [counts EXCEPT ![parallel + 1] = imagesForThisParallel],
                       remainingImages - imagesForThisParallel,
                       currentParallel + 1)
    ELSE [counts |-> counts, remainingImages |-> remainingImages]

\* The second loop: what is left goes to bands below their second maximum.
RECURSIVE SecondPass(_, _, _, _)
SecondPass(numParallels, counts, remainingImages, i) ==
    IF i < numParallels /\ remainingImages > 0
    THEN LET parallel == ParallelOrder(numParallels)[i + 1]
             currentImages == counts[parallel + 1]
             additionalImages ==
                 Min(remainingImages,
                     MaxImagesInParallel(BASE_PARALLEL_MULTIPLIER,
                                         numParallels, parallel)
                         - currentImages)
         IN  IF additionalImages > 0
             THEN SecondPass(numParallels,
                             [counts EXCEPT ![parallel + 1] =
                                 currentImages + additionalImages],
                             remainingImages - additionalImages, i + 1)
             ELSE SecondPass(numParallels, counts, remainingImages, i + 1)
    ELSE counts

\* The per-band counts both loops leave for an array of n urls.
ImagesPerParallel(n) ==
    LET numParallels == NumParallels(n)
        first == FirstPass(numParallels, [p \in 1..numParallels |-> 0], n, 0)
    IN  SecondPass(numParallels, first.counts, first.remainingImages, 0)

\* The placement loops: the next url for each slot of each band, band 0 first.
RECURSIVE Place(_, _, _, _)
Place(urls, counts, p, placed) ==
    IF p >= Len(counts) THEN placed
    ELSE LET room == Min(counts[p + 1], Len(urls) - Len(placed))
         IN  Place(urls, counts, p + 1,
                   placed \o [i \in 1..Max(room, 0) |->
                                 [imageUrl |-> urls[Len(placed) + i],
                                  parallel |-> p]])

generateSphericalDistribution(urls) ==
    Place(urls, ImagesPerParallel(Len(urls)), 0, << >>)

\* new ImageProjector(sphere, camera, gradientManager)
\* dispose() that releases the records and keeps the array
KeepProjectionData(registry) == registry

\* dispose(): this.projectionData = []
ClearProjectionData(registry) == << >>

ProjectorInit ==
    /\ projectionData = << >>
    /\ projectedMeshes = << >>
    /\ sphereMeshes = {}
    /\ released = {}
    /\ projectorSphere = TRUE
    /\ loads = [url \in Images |-> "none"]
    /\ promises = [url \in Images |-> "none"]
    /\ lastMorphed = {}
    /\ lateMorph = FALSE
    /\ nBatches = 0

(***************************************************************************)
(* Inputs: the steps and sequences the API calls pass, the viewport widths.*)
(***************************************************************************)
ApiStep(tgt, dur, del, ease, kf, cb) ==
    [target |-> tgt, duration |-> dur, delay |-> del, easing |-> ease,
     useKeyframe |-> kf, onComplete |-> cb, origin |-> "api", id |-> 0]

StepA == ApiStep([scale |-> [x |-> 20], imageScale |-> 30],
                 0, 0, "Linear.None", "", TRUE)
StepB == ApiStep([position |-> [x |-> 20], rotation |-> [x |-> 4, y |-> 6]],
                 100, 0, "Quadratic.InOut", "", TRUE)
StepC == ApiStep([rotationSpeed |-> 16], 50, 50, "Linear.None", "phase2",
                 FALSE)

ApiSteps == {StepA, StepB, StepC}
ApiSequences == {<< StepA, StepB >>, << StepB, StepC >>}

\* The sequence arrays a caller of the tracking manager keeps and replays.
TrackedSequences == << << StepA, StepB >>, << StepB, StepC >> >>
Widths == {500, 800}

InitialTarget ==
    [scale |-> XYZ(10, 10, 10), position |-> XYZ(0, 0, 0),
     rotation |-> XYZ(0, 0, 0)]

(***************************************************************************)
(* The state after new ResponsiveGlobeVisualizer(...): both managers       *)
(* built, responsive mode enabled, the breakpoint's settings applied.      *)
(***************************************************************************)
InitOf(modes, tables, widths) ==
    /\ queue = << >>
    /\ currentAnimation = Null
    /\ lastImageScale = Null
    /\ lastRotationSpeed = Null
    /\ isResponsiveMode \in modes
    /\ tweens = {}
    /\ target = InitialTarget
    /\ sizeMultiplier = 100
    /\ breakpoints \in tables
    /\ innerWidth \in widths
    /\ currentBreakpoint = updateBreakpoint(breakpoints, innerWidth)
    /\ rotationSpeed = getResponsiveGlobeConfig(currentBreakpoint).rotationSpeed
    /\ resizeTimeout = Null
    /\ settleTimers = << >>
    /\ nextId = 1
    /\ started = << >>
    /\ completed = << >>
    /\ finished = << >>
    /\ cancelled = {}
    /\ withCallback = {}
    /\ seqPlays = 0
    /\ earlyStart = FALSE
    /\ tickLog = << >>
    /\ nCalls = 0
    /\ nResizes = 0
    /\ sinceEvent = Null
    /\ heldBefore = currentBreakpoint
    /\ callbacks = << >>
    /\ burstLen = 0
    /\ ProjectorInit
    /\ imageUrls = << >>
    /\ configs = << >>
    /\ imagesPerParallel = << >>
    /\ planned = FALSE
    /\ failedStarts = {}
    /\ raised = FALSE
    /\ destroyed = FALSE
    /\ frameLoop = TRUE
    /\ callbackTimer = "armed"
    /\ clearTimer = TRUE
    /\ trailClears = 0
    /\ listening = TRUE
    /\ cleanups = {}
    /\ warnings = {}
    /\ failedCleanup = "none"
    /\ sinceInit = 0
    /\ continuousRotation = 0
    /\ isSequenceRunning = FALSE
    /\ totalAnimationsInSequence = 0
    /\ completedAnimationsInSequence = 0
    /\ wrappers = [s \in DOMAIN TrackedSequences |->
                      [i \in DOMAIN TrackedSequences[s] |-> 0]]
    /\ layers = << >>
    /\ played = << >>
    /\ sequenceCompletions = << >>

Init == InitOf({TRUE}, {ConfigBreakpoints}, Widths)

Tracker == <<isSequenceRunning, totalAnimationsInSequence,
             completedAnimationsInSequence, wrappers, layers, played,
             sequenceCompletions>>

Lifecycle == <<destroyed, frameLoop, callbackTimer, clearTimer, trailClears,
               listening, cleanups, warnings, failedCleanup, sinceInit,
               continuousRotation, Tracker>>

Responsive == <<breakpoints, innerWidth, currentBreakpoint, resizeTimeout>>

Bursts == <<sinceEvent, heldBefore, callbacks, burstLen>>

Projector == <<projectionData, projectedMeshes, sphereMeshes, released,
               projectorSphere, loads, promises, lastMorphed, lateMorph, nBatches,
               imageUrls, configs, imagesPerParallel, planned>>

\* animationManager.add(params), the limit-th enqueuing call at most
AddWithin(limit, params) ==
    /\ nCalls < limit
    /\ Commit(add(Eng, params))
    /\ nCalls' = nCalls + 1
    /\ UNCHANGED <<Lifecycle, Responsive, Bursts, Projector, seqPlays, nResizes>>

\* animationManager.add(params)
Add(params) == AddWithin(MaxCalls, params)

\* animationManager.addAnimation(target, duration, easing, delay, ...)
AddAnimation(params) ==
    /\ nCalls < MaxCalls
    /\ Commit(addAnimation(Eng, params))
    /\ nCalls' = nCalls + 1
    /\ UNCHANGED <<Lifecycle, Responsive, Bursts, Projector, seqPlays, nResizes>>

\* animationManager.playSequence(sequence), the limit-th call at most
PlaySequenceWithin(limit, sequence) ==
    /\ nCalls < limit
    /\ Commit(playSequence(Eng, sequence))
    /\ nCalls' = nCalls + 1
    /\ UNCHANGED <<Lifecycle, Responsive, Bursts, Projector, seqPlays, nResizes>>

\* animationManager.playSequence(sequence)
PlaySequence(sequence) == PlaySequenceWithin(MaxCalls, sequence)

\* responsiveVisualizer.startAnimations(), as initiateGlobe calls it
StartAnimations ==
    /\ nextId = 1
    /\ Commit(playResponsiveSequence(Eng, currentBreakpoint, "start"))
    /\ UNCHANGED <<Lifecycle, Responsive, Bursts, Projector, seqPlays, nCalls, nResizes>>

\* animationManager.update(), once per rendered frame
Update ==
    \E sameInstant \in BOOLEAN :
        /\ Commit(update(Eng, sameInstant))
        /\ UNCHANGED <<Lifecycle, Responsive, Bursts, Projector, seqPlays, nCalls, nResizes>>

\* animationManager.stop()
Stop ==
    /\ Commit(stop(Eng))
    /\ UNCHANGED <<Lifecycle, Responsive, Bursts, Projector, seqPlays, nCalls, nResizes>>

TimerDue ==
    \/ resizeTimeout = 0
    \/ \E i \in 1..Len(settleTimers) : settleTimers[i] = 0

\* Time passes: a due timer fires before the clock moves on.
Advance ==
    /\ ~TimerDue
    /\ tweens' = {[tw EXCEPT !.t = Min(@ + Quantum,
                                       tw.params.delay + tw.params.duration)]
                  : tw \in tweens}
    /\ tickLog' = << >>
    /\ resizeTimeout' = IF resizeTimeout = Null THEN Null
                        ELSE Max(0, resizeTimeout - Quantum)
    /\ settleTimers' = [i \in 1..Len(settleTimers) |->
                            Max(0, settleTimers[i] - Quantum)]
    /\ UNCHANGED <<Lifecycle, queue, currentAnimation, lastImageScale, lastRotationSpeed,
                   isResponsiveMode, target, sizeMultiplier, rotationSpeed,
                   breakpoints, innerWidth, currentBreakpoint, nextId,
                   started, completed, finished, cancelled, withCallback,
                   seqPlays, earlyStart, nCalls, nResizes, heldBefore,
                   callbacks, burstLen, Projector, failedStarts, raised>>
    /\ sinceEvent' = IF sinceEvent = Null THEN Null
                     ELSE Min(sinceEvent + Quantum, DebounceMs)

\* setTimeout without the clearTimeout before it: a running timer is kept
KeepRunningTimer(pending) == IF pending = Null THEN DebounceMs ELSE pending

\* clearTimeout(this.resizeTimeout); this.resizeTimeout = setTimeout(..., 150)
handleResize(pending) == DebounceMs

\* A resize or orientationchange event, the limit-th at most.
ResizeWithin(limit, width) ==
    /\ nResizes < limit
    /\ innerWidth' = width
    /\ resizeTimeout' = handleResize(resizeTimeout)
    /\ nResizes' = nResizes + 1
    /\ sinceEvent' = 0
    /\ heldBefore' = IF resizeTimeout = Null THEN currentBreakpoint
                     ELSE heldBefore
    /\ burstLen' = IF resizeTimeout = Null THEN 1 ELSE burstLen + 1
    /\ UNCHANGED <<Lifecycle, queue, currentAnimation, lastImageScale, lastRotationSpeed,
                   isResponsiveMode, tweens, target, sizeMultiplier,
                   rotationSpeed, breakpoints, currentBreakpoint,
                   settleTimers, nextId, started, completed, finished,
                   cancelled, withCallback, seqPlays, earlyStart, nCalls,
                   callbacks, Projector, failedStarts, raised>>
    /\ tickLog' = << >>

\* A resize or orientationchange event: handleResize restarts the debounce.
Resize(width) == ResizeWithin(MaxResizes, width)

\* The debounce timer's callback in handleResize.
DebounceFire ==
    /\ resizeTimeout = 0
    /\ resizeTimeout' = Null
    /\ LET previousBreakpoint == currentBreakpoint
           newBreakpoint == updateBreakpoint(breakpoints, innerWidth)
       IN  /\ currentBreakpoint' = newBreakpoint
           /\ IF previousBreakpoint # newBreakpoint
              THEN /\ Commit(restartAnimations(
                                TransitionCallback(Eng, newBreakpoint),
                                newBreakpoint))
                   /\ seqPlays' = 1
                   /\ callbacks' = Append(callbacks,
                                          <<newBreakpoint, previousBreakpoint>>)
              ELSE /\ Commit(Eng)
                   /\ seqPlays' = seqPlays
                   /\ callbacks' = callbacks
    /\ sinceEvent' = Null
    /\ UNCHANGED <<Lifecycle, breakpoints, innerWidth, nCalls, nResizes, heldBefore,
                   burstLen, Projector>>

\* The timer onBreakpointChange set: playResponsiveSequence().
SettleFire ==
    /\ settleTimers # << >>
    /\ Head(settleTimers) = 0
    /\ Commit(playResponsiveSequence(
                 [Eng EXCEPT !.settleTimers = Tail(@)], currentBreakpoint,
                 "breakpoint"))
    /\ seqPlays' = IF isResponsiveMode THEN seqPlays + 1 ELSE seqPlays
    /\ UNCHANGED <<Lifecycle, Responsive, Bursts, Projector, nCalls, nResizes>>

Next ==
    \/ \E params \in ApiSteps : Add(params)
    \/ \E params \in ApiSteps : AddAnimation(params)
    \/ \E sequence \in ApiSequences : PlaySequence(sequence)
    \/ StartAnimations
    \/ Update
    \/ Stop
    \/ Advance
    \/ \E width \in Widths : Resize(width)
    \/ DebounceFire
    \/ SettleFire

Spec == Init /\ [][Next]_vars

(***************************************************************************)
(* Keyframe timing: steps that carry useKeyframe and timing of their own,  *)
(* enqueued with responsive mode enabled or disabled.                      *)
(***************************************************************************)
StepK == ApiStep([scale |-> [y |-> 20]], 50, 50, "Linear.None", "phase2", TRUE)
StepU == ApiStep([position |-> [z |-> 20]], 50, 0, "Linear.None", "phase9",
                 FALSE)

KfSteps == {StepA, StepK, StepU}
KfSequences == {<< StepK, StepU >>, << StepA, StepK >>}

KfInit == InitOf(BOOLEAN, {ConfigBreakpoints}, Widths)

KfNext ==
    \/ \E params \in KfSteps : Add(params)
    \/ \E params \in KfSteps : AddAnimation(params)
    \/ \E sequence \in KfSequences : PlaySequence(sequence)
    \/ Update
    \/ Stop
    \/ Advance

SpecKeyframe == KfInit /\ [][KfNext]_vars

(***************************************************************************)
(* Breakpoint resolution: updateBreakpoint() over breakpoint tables in     *)
(* every listing order and over viewport widths.                           *)
(***************************************************************************)
Perms(seq) ==
    {p \in [1..Len(seq) -> {seq[i] : i \in 1..Len(seq)}] :
        \A i, j \in 1..Len(seq) : i # j => p[i] # p[j]}

OtherEntries ==
    {<<"tablet", 768>>, <<"desktop", 1024>>, <<"small", 320>>,
     <<"mobile", 480>>}

OtherTables ==
    {<< a >> : a \in OtherEntries}
        \cup {t \in {<< a, b >> : a \in OtherEntries, b \in OtherEntries} :
                  t[1][1] # t[2][1]}

BpTables == Perms(ConfigBreakpoints) \cup OtherTables
BpWidths == {0, 100, 500, 767, 768, 1023, 1024, 1440, 5000}

\* The page loads at one width; every other width is reached by a resize.
BpInit == InitOf({TRUE}, BpTables, {1024})

\* The viewport takes a new width and updateBreakpoint() runs.
UpdateBreakpoint(width) ==
    /\ innerWidth' = width
    /\ currentBreakpoint' = updateBreakpoint(breakpoints, width)
    /\ UNCHANGED <<Lifecycle, queue, currentAnimation, lastImageScale, lastRotationSpeed,
                   isResponsiveMode, tweens, target, sizeMultiplier,
                   rotationSpeed, breakpoints, resizeTimeout, settleTimers,
                   nextId, started, completed, finished, cancelled,
                   withCallback, seqPlays, earlyStart, tickLog, nCalls,
                   nResizes, Bursts, Projector, failedStarts, raised>>

BpNext == \E width \in BpWidths : UpdateBreakpoint(width)

SpecBreakpoint == BpInit /\ [][BpNext]_vars

(***************************************************************************)
(* Resize bursts: events that arrive while the debounce timer is running,  *)
(* the timer's callback, and the animation restart it causes.              *)
(***************************************************************************)
BurstWidths == {500, 800, 1100}

\* A resize event less than 150 ms after the previous one, or a first one.
ResizeEvent(width) ==
    /\ ~TimerDue
    /\ ResizeWithin(MaxEvents, width)

DbNext ==
    \/ \E width \in BurstWidths : ResizeEvent(width)
    \/ Advance
    \/ DebounceFire
    \/ SettleFire
    \/ Update

SpecDebounce == Init /\ [][DbNext]_vars

(***************************************************************************)
(* The projector: batches of image loads that succeed or fail, multiplier  *)
(* changes that morph the registered meshes, and dispose().                *)
(***************************************************************************)
Batches == {<<"a", "b", "c">>, <<"b", "a">>}
Multipliers == {30, 50, 100, 120}

Engine == <<queue, currentAnimation, lastImageScale, lastRotationSpeed,
            isResponsiveMode, tweens, target, rotationSpeed, settleTimers,
            nextId, started, completed, finished, cancelled, withCallback,
            seqPlays, earlyStart, tickLog, nCalls, nResizes, failedStarts,
            raised>>

\* projectImages(imageConfigs): one projectImage, and one load, per config.
ProjectImages(batch) ==
    /\ nBatches < MaxBatches
    /\ nBatches' = nBatches + 1
    /\ loads' = [url \in Images |->
                    IF url \in Range(batch) THEN "loading" ELSE loads[url]]
    /\ promises' = [url \in Images |->
                       IF url \in Range(batch) THEN "pending"
                       ELSE promises[url]]
    /\ UNCHANGED <<Lifecycle, Engine, Responsive, Bursts, sizeMultiplier, projectionData,
                   projectedMeshes, sphereMeshes, released, projectorSphere,
                   lastMorphed, lateMorph,
                   imageUrls, configs, imagesPerParallel, planned>>

\* The loader calls back with the texture. With this.sphere null the
\* callback throws at this.sphere.geometry before it registers anything.
LoadSucceeds(url) ==
    /\ loads[url] = "loading"
    /\ IF projectorSphere
       THEN /\ projectionData' =
                   Append(projectionData,
                          projectImage(ImageConfigs[url], sizeMultiplier))
            /\ sphereMeshes' = sphereMeshes \cup {url}
            /\ projectedMeshes' = Append(projectedMeshes, url)
            /\ promises' = [promises EXCEPT ![url] = "resolved"]
            /\ loads' = [loads EXCEPT ![url] = "loaded"]
       ELSE /\ loads' = [loads EXCEPT ![url] = "threw"]
            /\ UNCHANGED <<projectionData, sphereMeshes, projectedMeshes,
                           promises>>
    /\ UNCHANGED <<Lifecycle, Engine, Responsive, Bursts, sizeMultiplier, released,
                   projectorSphere, lastMorphed, lateMorph, nBatches,
                   imageUrls, configs, imagesPerParallel, planned>>

\* The load fails: loader.load was given no onError callback.
LoadFails(url) ==
    /\ loads[url] = "loading"
    /\ loads' = [loads EXCEPT ![url] = "failed"]
    /\ UNCHANGED <<Lifecycle, Engine, Responsive, Bursts, sizeMultiplier, projectionData,
                   projectedMeshes, sphereMeshes, released, projectorSphere,
                   promises, lastMorphed, lateMorph, nBatches,
                   imageUrls, configs, imagesPerParallel, planned>>

\* imageProjector.setSizeMultiplier(multiplier)
SetSizeMultiplier(multiplier) ==
    /\ sizeMultiplier' = setSizeMultiplier(Eng, multiplier).sizeMultiplier
    /\ IF MorphNeeded(sizeMultiplier, multiplier)
       THEN /\ projectionData' = reprojectAllImages(projectionData, multiplier)
            /\ lastMorphed' = {projectionData[i].imageUrl :
                                  i \in DOMAIN projectionData}
       ELSE /\ projectionData' = projectionData
            /\ lastMorphed' = {}
    /\ lateMorph' = (lateMorph \/ (~projectorSphere /\ sizeMultiplier # multiplier))
    /\ UNCHANGED <<Lifecycle, Engine, Responsive, Bursts, projectedMeshes, sphereMeshes,
                   released, projectorSphere, loads, promises, nBatches,
                   imageUrls, configs, imagesPerParallel, planned>>

\* dispose(): every record's mesh leaves the sphere and is released.
DisposeProjector ==
    /\ sphereMeshes' =
          IF projectorSphere
          THEN sphereMeshes \ {projectionData[i].imageUrl :
                                  i \in DOMAIN projectionData}
          ELSE sphereMeshes
    /\ released' = released \cup {projectionData[i].imageUrl :
                                     i \in DOMAIN projectionData}
    /\ projectionData' = ClearProjectionData(projectionData)
    /\ projectorSphere' = FALSE
    /\ lastMorphed' = {}

\* imageProjector.dispose()
Dispose ==
    /\ DisposeProjector
    /\ UNCHANGED <<Lifecycle, Engine, Responsive, Bursts, sizeMultiplier, projectedMeshes,
                   lateMorph, loads, promises, nBatches,
                   imageUrls, configs, imagesPerParallel, planned>>

PjNext ==
    \/ \E batch \in Batches : ProjectImages(batch)
    \/ \E url \in Images : LoadSucceeds(url)
    \/ \E url \in Images : LoadFails(url)
    \/ \E multiplier \in Multipliers : SetSizeMultiplier(multiplier)
    \/ Dispose

SpecProjector == Init /\ [][PjNext]_vars

(***************************************************************************)
(* The distribution planner: generateSphericalDistribution() applied to    *)
(* arrays of distinct urls of every length up to MaxImages.                *)
(***************************************************************************)
\* The page hands its images over: a new array, not planned yet.
SetImages(n) ==
    /\ imageUrls' = [i \in 1..n |-> i]
    /\ configs' = << >>
    /\ imagesPerParallel' = << >>
    /\ planned' = FALSE
    /\ UNCHANGED <<Lifecycle, Engine, Responsive, Bursts, sizeMultiplier, projectionData,
                   projectedMeshes, sphereMeshes, released, projectorSphere,
                   loads, promises, lastMorphed, lateMorph, nBatches>>

\* generateSphericalDistribution(imageUrls)
GenerateSphericalDistribution ==
    /\ ~planned
    /\ planned' = TRUE
    /\ configs' = generateSphericalDistribution(imageUrls)
    /\ imagesPerParallel' = ImagesPerParallel(Len(imageUrls))
    /\ UNCHANGED <<Lifecycle, Engine, Responsive, Bursts, sizeMultiplier, projectionData,
                   projectedMeshes, sphereMeshes, released, projectorSphere,
                   loads, promises, lastMorphed, lateMorph, nBatches, imageUrls>>

DsNext ==
    \/ \E n \in 0..MaxImages : SetImages(n)
    \/ GenerateSphericalDistribution

DsInit == InitOf({TRUE}, {ConfigBreakpoints}, {800})

SpecDistribution == DsInit /\ [][DsNext]_vars

(***************************************************************************)
(* Malformed steps: steps without a target object or with an easing type   *)
(* that TWEEN.Easing lacks, among well-formed ones.                        *)
(***************************************************************************)
StepNoTarget ==
    [duration |-> 50, delay |-> 0, easing |-> "Linear.None",
     useKeyframe |-> "", onComplete |-> TRUE, origin |-> "api", id |-> 0]
StepBadEasing ==
    ApiStep([scale |-> [z |-> 20]], 50, 0, "Bogus.InOut", "", TRUE)

FaultySteps == {StepA, StepNoTarget, StepBadEasing}
FaultySequences ==
    {<< StepB, StepBadEasing, StepA >>, << StepB, StepNoTarget, StepA >>,
     << StepNoTarget, StepA >>}

FtNext ==
    \/ \E params \in FaultySteps : AddWithin(MaxFaultCalls, params)
    \/ \E sequence \in FaultySequences :
          PlaySequenceWithin(MaxFaultCalls, sequence)
    \/ Update
    \/ Advance

SpecFaulty == Init /\ [][FtNext]_vars

(***************************************************************************)
(* The life of a visualization: initiateGlobe has built it and started the *)
(* render loop; timers fire, the window is resized, and destroy() of the   *)
(* API object runs once, with at most one cleanup operation throwing.      *)
(***************************************************************************)
\* The try blocks of destroy(), and the operations inside each, in order.
CleanupBlocks ==
    << << "stopAnimations" >>, << "destroyResponsive" >>,
       << "disposeProjector" >>,
       << "disposeGlobe", "clearScene", "disposeRenderer" >>,
       << "removeListeners" >>, << "removeContainer" >>,
       << "cancelFrames" >> >>

CleanupOps == UNION {Range(CleanupBlocks[i]) : i \in DOMAIN CleanupBlocks}

\* What a try block carries out when fault throws: what stands before it.
RunBlock(block, fault) ==
    {block[j] : j \in {i \in DOMAIN block :
                          \A k \in 1..i : block[k] # fault}}

Carried(fault) ==
    UNION {RunBlock(CleanupBlocks[i], fault) : i \in DOMAIN CleanupBlocks}

\* The catch clauses that run: console.warn in the block that holds fault.
Warned(fault) ==
    {i \in DOMAIN CleanupBlocks : fault \in Range(CleanupBlocks[i])}

\* destroy() of the API object; fault is the operation that throws.
Destroy(fault) ==
    /\ ~destroyed
    /\ LET done == Carried(fault)
           e1 == IF "stopAnimations" \in done THEN stop(Eng) ELSE Eng
           e2 == IF "destroyResponsive" \in done THEN stop(e1) ELSE e1
       IN  /\ Commit(e2)
           /\ destroyed' = TRUE
           /\ cleanups' = done
           /\ warnings' = Warned(fault)
           /\ failedCleanup' = fault
           /\ listening' = (listening /\ "destroyResponsive" \notin done)
           /\ resizeTimeout' = IF "destroyResponsive" \in done THEN Null
                               ELSE resizeTimeout
           /\ sinceEvent' = IF "destroyResponsive" \in done THEN Null
                            ELSE sinceEvent
           /\ IF "disposeProjector" \in done THEN DisposeProjector
              ELSE UNCHANGED <<sphereMeshes, released, projectionData,
                               projectorSphere, lastMorphed>>
           /\ clearTimer' = (clearTimer /\ "disposeGlobe" \notin done)
           /\ frameLoop' = (frameLoop /\ "cancelFrames" \notin done)
    /\ UNCHANGED <<breakpoints, innerWidth, currentBreakpoint, heldBefore,
                   callbacks, burstLen, projectedMeshes, loads, promises,
                   lateMorph, nBatches, imageUrls, configs, imagesPerParallel,
                   planned, seqPlays, nCalls, nResizes, callbackTimer,
                   trailClears, sinceInit, continuousRotation, Tracker>>

\* A frame of the render loop: animate() calls animator.update().
Frame ==
    /\ frameLoop
    /\ Update

\* A resize event reaches handleResize while the listener is attached.
WindowResize(width) ==
    /\ listening
    /\ ~TimerDue
    /\ ResizeWithin(MaxResizes, width)

\* initiateGlobe's startAnimations(), before it returns the API object.
InitialAnimations ==
    /\ ~destroyed
    /\ StartAnimations

\* The completion-callback timer fires: callback() runs. The instant is
\* left open: destroy() may come before or after the 10.5 s.
CallbackFire ==
    /\ callbackTimer = "armed"
    /\ callbackTimer' = "fired"
    /\ UNCHANGED <<Engine, sizeMultiplier, Responsive, Bursts, Projector,
                   destroyed, frameLoop, clearTimer, trailClears, listening,
                   cleanups, warnings, failedCleanup, sinceInit,
                   continuousRotation, Tracker>>

\* The trail-clear interval fires: clearTrails().
ClearTrails ==
    /\ clearTimer
    /\ trailClears < MaxClears
    /\ trailClears' = trailClears + 1
    /\ UNCHANGED <<Engine, sizeMultiplier, Responsive, Bursts, Projector,
                   destroyed, frameLoop, callbackTimer, clearTimer, listening,
                   cleanups, warnings, failedCleanup, sinceInit,
                   continuousRotation, Tracker>>

LcNext ==
    \/ InitialAnimations
    \/ Frame
    \/ Advance
    \/ \E width \in BurstWidths : WindowResize(width)
    \/ DebounceFire
    \/ SettleFire
    \/ CallbackFire
    \/ ClearTrails
    \/ \E fault \in CleanupOps \cup {"none"} : Destroy(fault)

SpecLifecycle == Init /\ [][LcNext]_vars

(***************************************************************************)
(* The completion callback: wall-clock time from initiateGlobe on, with a  *)
(* frame of the render loop every Quantum ms, resize events, and the timer *)
(* that calls callback() after totalAnimationTime.                         *)
(***************************************************************************)
CallbackDue == callbackTimer = "armed" /\ sinceInit = TotalAnimationTime

\* Quantum ms pass and the render loop runs a frame: animator.update().
TimedFrame ==
    /\ nextId > 1
    /\ ~TimerDue
    /\ ~CallbackDue
    /\ \E sameInstant \in BOOLEAN :
          Commit(update(
             [Eng EXCEPT
                !.tweens = {[tw EXCEPT !.t = Min(@ + Quantum,
                                                 tw.params.delay
                                                    + tw.params.duration)]
                            : tw \in tweens},
                !.settleTimers = [i \in 1..Len(settleTimers) |->
                                     Max(0, settleTimers[i] - Quantum)]],
             sameInstant))
    /\ resizeTimeout' = IF resizeTimeout = Null THEN Null
                        ELSE Max(0, resizeTimeout - Quantum)
    /\ sinceEvent' = IF sinceEvent = Null THEN Null
                     ELSE Min(sinceEvent + Quantum, DebounceMs)
    /\ sinceInit' = Min(sinceInit + Quantum, TotalAnimationTime)
    /\ UNCHANGED <<breakpoints, innerWidth, currentBreakpoint, seqPlays,
                   nCalls, nResizes, heldBefore, callbacks, burstLen,
                   Projector, destroyed, frameLoop, callbackTimer, clearTimer,
                   trailClears, listening, cleanups, warnings, failedCleanup,
                   continuousRotation, Tracker>>

\* The timer set by initiateGlobe fires: callback().
TimedCallback ==
    /\ CallbackDue
    /\ CallbackFire

CbNext ==
    \/ InitialAnimations
    \/ TimedFrame
    \/ \E width \in BurstWidths : WindowResize(width)
    \/ DebounceFire
    \/ SettleFire
    \/ TimedCallback

SpecCallback == Init /\ [][CbNext]_vars

(***************************************************************************)
(* The render loop and the steps: frames of animate(), which tick the      *)
(* current step and then turn the sphere about y, among API calls.         *)
(***************************************************************************)
\* animate(): animator.update(), continuousRotation.y += speed,
\* sphere.rotation.y = continuousRotation.y.
animate(e, y, sameInstant) ==
    LET e1 == update(e, sameInstant)
    IN  [e1 EXCEPT !.target.rotation.y = y + e1.rotationSpeed]

\* A frame of the render loop.
RenderFrame ==
    \E sameInstant \in BOOLEAN :
        LET e == animate(Eng, continuousRotation, sameInstant)
        IN  /\ e.target.rotation.y <= MaxAngle
            /\ Commit(e)
            /\ continuousRotation' = e.target.rotation.y
            /\ UNCHANGED <<Responsive, Bursts, Projector, seqPlays, nCalls,
                           nResizes, destroyed, frameLoop, callbackTimer,
                           clearTimer, trailClears, listening, cleanups,
                           warnings, failedCleanup, sinceInit, Tracker>>

RtNext ==
    \/ \E params \in ApiSteps : Add(params)
    \/ \E sequence \in ApiSequences : PlaySequence(sequence)
    \/ RenderFrame
    \/ Update
    \/ Advance

SpecRotation == Init /\ [][RtNext]_vars

(***************************************************************************)
(* Morph passes: the imageScale part of a step's tick and setSizeMultiplier *)
(* calls from elsewhere, over a registry that image loads fill.            *)
(***************************************************************************)
\* The imageScale part of onUpdate, for the interpolated value imageScale.
ImageScaleTick(imageScale) ==
    /\ IF lastImageScale # imageScale
       THEN /\ sizeMultiplier' =
                   setSizeMultiplier(Eng, imageScale).sizeMultiplier
            /\ IF MorphNeeded(sizeMultiplier, imageScale)
               THEN /\ projectionData' =
                           reprojectAllImages(projectionData, imageScale)
                    /\ lastMorphed' = {projectionData[i].imageUrl :
                                          i \in DOMAIN projectionData}
               ELSE /\ projectionData' = projectionData
                    /\ lastMorphed' = {}
            /\ lastImageScale' = imageScale
       ELSE /\ lastMorphed' = {}
            /\ UNCHANGED <<sizeMultiplier, projectionData, lastImageScale>>
    /\ UNCHANGED <<Lifecycle, Responsive, Bursts, queue, currentAnimation,
                   lastRotationSpeed, isResponsiveMode, tweens, target,
                   rotationSpeed, settleTimers, nextId, started, completed,
                   finished, cancelled, withCallback, seqPlays, earlyStart,
                   tickLog, nCalls, nResizes, failedStarts, raised,
                   projectedMeshes, sphereMeshes, released, projectorSphere,
                   loads, promises, lateMorph, nBatches, imageUrls, configs,
                   imagesPerParallel, planned>>

MorphBatches == {<< "a", "b" >>}
MorphValues == {50, 100, 120}

MpNext ==
    \/ \E batch \in MorphBatches : ProjectImages(batch)
    \/ \E url \in Images : LoadSucceeds(url)
    \/ \E multiplier \in MorphValues : SetSizeMultiplier(multiplier)
    \/ \E imageScale \in MorphValues : ImageScaleTick(imageScale)

SpecMorph == Init /\ [][MpNext]_vars

(***************************************************************************)
(* Progress: the enqueuing calls of the API with the render loop running   *)
(* for ever, so that update() is called and time passes again and again.   *)
(***************************************************************************)
LvNext ==
    \/ \E params \in ApiSteps : Add(params)
    \/ \E params \in ApiSteps : AddAnimation(params)
    \/ \E sequence \in ApiSequences : PlaySequence(sequence)
    \/ Update
    \/ Advance

SpecProgress == Init /\ [][LvNext]_vars

(***************************************************************************)
(* EnhancedAnimationManager: the manager that counts completed steps and   *)
(* runs the sequence-completion callbacks. add() wraps params.onComplete   *)
(* on the object it is given; playSequence hands add() the elements of the *)
(* caller's array, or the copy the keyframe override made of one.          *)
(***************************************************************************)
Trk == [isSequenceRunning |-> isSequenceRunning,
        totalAnimationsInSequence |-> totalAnimationsInSequence,
        completedAnimationsInSequence |-> completedAnimationsInSequence,
        sequenceCompletions |-> sequenceCompletions]

\* checkSequenceCompletion(), called when n steps have finished
checkSequenceCompletion(tr, n) ==
    IF /\ tr.isSequenceRunning
       /\ tr.completedAnimationsInSequence >= tr.totalAnimationsInSequence
    THEN [tr EXCEPT !.isSequenceRunning = FALSE,
                    !.sequenceCompletions =
                        Append(@, [play |-> Len(played), after |-> n])]
    ELSE tr

\* The tracking part of one wrapper that add() put around onComplete.
TrackCompletion(tr, n) ==
    IF tr.isSequenceRunning
    THEN checkSequenceCompletion(
             [tr EXCEPT !.completedAnimationsInSequence = @ + 1], n)
    ELSE tr

\* onComplete of a step under depth wrappers: each calls the one inside it
\* first and then does its own tracking.
RECURSIVE WrappedOnComplete(_, _, _)
WrappedOnComplete(tr, depth, n) ==
    IF depth = 0 THEN tr
    ELSE TrackCompletion(WrappedOnComplete(tr, depth - 1, n), n)

\* The onComplete calls of the steps an update() completed, in order.
RECURSIVE Completions(_, _, _)
Completions(tr, done, n) ==
    IF n > Len(done) THEN tr
    ELSE Completions(WrappedOnComplete(tr, layers[done[n]], n), done, n + 1)

Page == <<destroyed, frameLoop, callbackTimer, clearTimer, trailClears,
          listening, cleanups, warnings, failedCleanup, sinceInit,
          continuousRotation>>

\* enhanced.add(params) with a step object of its own
TrackedAdd(params) ==
    /\ nCalls < MaxTrackedCalls
    /\ Commit(add(Eng, params))
    /\ nCalls' = nCalls + 1
    /\ layers' = Append(layers, 1)
    /\ UNCHANGED <<isSequenceRunning, totalAnimationsInSequence,
                   completedAnimationsInSequence, wrappers, played,
                   sequenceCompletions, Page, Responsive, Bursts, Projector,
                   seqPlays, nResizes>>

\* The base playSequence copies a step when it overrides its timing.
Copied(params) ==
    /\ params.useKeyframe # ""
    /\ isResponsiveMode
    /\ getKeyframeTiming(params.useKeyframe).found

\* enhanced.playSequence(sequence) with the s-th array the caller keeps
TrackedPlaySequence(s) ==
    LET sequence == TrackedSequences[s]
    IN  /\ nCalls < MaxTrackedCalls
        /\ Commit(playSequence(Eng, sequence))
        /\ nCalls' = nCalls + 1
        /\ isSequenceRunning' = TRUE
        /\ totalAnimationsInSequence' = Len(sequence)
        /\ completedAnimationsInSequence' = 0
        /\ layers' = layers \o [i \in 1..Len(sequence) |-> wrappers[s][i] + 1]
        /\ wrappers' = [wrappers EXCEPT ![s] =
                          [i \in 1..Len(sequence) |->
                              IF Copied(sequence[i]) THEN wrappers[s][i]
                              ELSE wrappers[s][i] + 1]]
        /\ played' = Append(played, [first |-> nextId,
                                     last |-> nextId + Len(sequence) - 1,
                                     stopped |-> FALSE])
        /\ UNCHANGED <<sequenceCompletions, Page, Responsive, Bursts,
                       Projector, seqPlays, nResizes>>

\* A frame: update() completes steps, whose wrapped onComplete runs.
TrackedUpdate ==
    \E sameInstant \in BOOLEAN :
        LET e == update(Eng, sameInstant)
            tr == Completions(Trk, e.finished, Len(finished) + 1)
        IN  /\ Commit(e)
            /\ isSequenceRunning' = tr.isSequenceRunning
            /\ totalAnimationsInSequence' = tr.totalAnimationsInSequence
            /\ completedAnimationsInSequence' = tr.completedAnimationsInSequence
            /\ sequenceCompletions' = tr.sequenceCompletions
            /\ UNCHANGED <<wrappers, layers, played, Page, Responsive, Bursts,
                           Projector, seqPlays, nCalls, nResizes>>

\* enhanced.stop()
TrackedStop ==
    /\ Commit(stop(Eng))
    /\ isSequenceRunning' = FALSE
    /\ totalAnimationsInSequence' = 0
    /\ completedAnimationsInSequence' = 0
    /\ played' = [i \in DOMAIN played |-> [played[i] EXCEPT !.stopped = TRUE]]
    /\ UNCHANGED <<wrappers, layers, sequenceCompletions, Page, Responsive,
                   Bursts, Projector, seqPlays, nCalls, nResizes>>

TkNext ==
    \/ \E params \in ApiSteps : TrackedAdd(params)
    \/ \E s \in DOMAIN TrackedSequences : TrackedPlaySequence(s)
    \/ TrackedUpdate
    \/ Advance
    \/ TrackedStop

SpecTracked == Init /\ [][TkNext]_vars

(***************************************************************************)
(* Properties                                                              *)
(***************************************************************************)
IdsOf(q) == [i \in 1..Len(q) |-> q[i].id]
Idle == currentAnimation = Null /\ queue = << >>

\* C1: at most one step is current at any instant: the group never holds
\* more than one tween, the tween it holds is currentAnimation, and every
\* step started before the latest one has completed or been stopped.
C1_AtMostOneCurrent ==
    /\ Cardinality(tweens) <= 1
    /\ \A tw \in tweens : tw.id = currentAnimation
    /\ \A i \in 1..Len(started) : \A j \in 1..(i - 1) :
          started[j] \in Range(finished) \cup cancelled

C1_Witness ==
    /\ tweens # {}
    /\ queue # << >>
    /\ finished # << >>
    /\ \E tw \in tweens : tw.t > tw.params.delay

\* C2: add(step) appends the step to the tail of the queue; when nothing is
\* playing the head of the queue becomes current in the same call, and when
\* a step is playing the new step waits and the current step, its tween and
\* the target are left as they are.
C2_AddAppendsAndStartsHeadWhenIdle ==
    [][\A params \in ApiSteps :
         Add(params) =>
           LET all == Append(IdsOf(queue), nextId)
               queued == Range(queue') \cup {tw.params : tw \in tweens'}
           IN  /\ \E q \in queued : q.id = nextId /\ q.target = params.target
               /\ IF currentAnimation = Null
                  THEN /\ currentAnimation' = Head(all)
                       /\ IdsOf(queue') = Tail(all)
                       /\ \E tw \in tweens' : tw.id = Head(all) /\ tw.t = 0
                  ELSE /\ IdsOf(queue') = all
                       /\ UNCHANGED <<currentAnimation, tweens, target,
                                      sizeMultiplier, rotationSpeed>>]_vars

C2_Witness ==
    /\ nCalls >= 1
    /\ currentAnimation # Null
    /\ queue # << >>
    /\ queue[Len(queue)].origin = "api"
    /\ queue[Len(queue)].id = nextId - 1
    /\ \E tw \in tweens : tw.id = currentAnimation /\ tw.t > 0

\* The completions so far are in enqueue order without repeats, a step has
\* started only after every step enqueued before it completed (or was
\* cancelled), and an idle engine with an empty queue has completed every
\* step that was not cancelled.
C3_Order ==
    /\ \A i, j \in 1..Len(finished) : i < j => finished[i] < finished[j]
    /\ \A i, j \in 1..Len(completed) : i < j => completed[i] < completed[j]
    /\ Range(completed) = Range(finished) \cap withCallback
    /\ \A i \in Range(started) : \A j \in 1..(i - 1) :
          j \in Range(finished) \cup cancelled
    /\ \A tw \in tweens : tw.id \notin Range(finished)
    /\ (queue = << >> /\ tweens = {}) => currentAnimation = Null
    /\ Idle => \A i \in 1..(nextId - 1) :
                  i \in Range(finished) \cup cancelled

\* An update() completes the step whose time is up; a completion starts
\* the head of the queue in the same call, or leaves the engine idle when
\* the queue is empty.
C3_Progress ==
    /\ \A tw \in tweens :
          (Update /\ tw.t >= tw.params.delay + tw.params.duration)
              => tw.id \in Range(finished')
    /\ finished' # finished =>
          IF queue = << >> THEN currentAnimation' = Null /\ queue' = << >>
          ELSE Len(started') > Len(started)

C4_StopFreezesAndUpdateIsNoOp ==
    [][/\ Stop => /\ currentAnimation' = Null
                  /\ queue' = << >>
                  /\ UNCHANGED <<target, sizeMultiplier, rotationSpeed>>
       /\ (Idle /\ Update) =>
              UNCHANGED <<target, sizeMultiplier, rotationSpeed, queue,
                          currentAnimation, tweens, finished>>]_vars

C4_Witness ==
    /\ Idle
    /\ \E i \in cancelled : i \in Range(started) /\ i \notin Range(finished)
    /\ target.position.x = 10
    /\ tweens = {}

\* C5: the onComplete of a step that was in flight or queued when stop()
\* ran never fires.
C5_NoCallbackAfterStop ==
    \A i \in cancelled : i \notin Range(finished) /\ i \notin Range(completed)

C5_Witness ==
    \E i \in cancelled \cap withCallback :
        /\ i \in Range(started)
        /\ \E j \in Range(finished) : j > i

\* C6: after a breakpoint change the sequence of the new breakpoint is
\* enqueued exactly once, and none of its steps starts while the settle
\* delay is still running.
C6_SequencePlayedOnceAfterSettle ==
    /\ seqPlays <= 1
    /\ ~earlyStart

\* A tick left every property the step does not name at its value from the
\* start of the step.
UnnamedKept(o) ==
    /\ \A a \in Axes :
          ~(Has(o.named, "scale") /\ Has(o.named.scale, a))
              => o.target.scale[a] = o.valuesStart.scale[a]
    /\ \A a \in Axes :
          ~(Has(o.named, "position") /\ Has(o.named.position, a))
              => o.target.position[a] = o.valuesStart.position[a]
    /\ \A a \in {"x", "z"} :
          ~(Has(o.named, "rotation") /\ Has(o.named.rotation, a))
              => o.target.rotation[a] = o.valuesStart.rotation[a]
    /\ ~Has(o.named, "imageScale") => o.imageScale = o.valuesStart.imageScale
    /\ ~Has(o.named, "rotationSpeed")
          => o.rotationSpeed = o.valuesStart.rotationSpeed

\* The final tick left every property the step names at the named value.
NamedReached(o) ==
    /\ \A a \in Axes :
          (Has(o.named, "scale") /\ Has(o.named.scale, a))
              => o.target.scale[a] = o.named.scale[a]
    /\ \A a \in Axes :
          (Has(o.named, "position") /\ Has(o.named.position, a))
              => o.target.position[a] = o.named.position[a]
    /\ \A a \in {"x", "z"} :
          (Has(o.named, "rotation") /\ Has(o.named.rotation, a))
              => o.target.rotation[a] = o.named.rotation[a]
    /\ Has(o.named, "imageScale") => o.imageScale = o.named.imageScale
    /\ Has(o.named, "rotationSpeed") => o.rotationSpeed = o.named.rotationSpeed

\* C7: at every tick of a step the properties its target does not name
\* have the value they had when the step started, and at its completion
\* the named ones have exactly their target values.
C7_PartialUpdate ==
    \A i \in 1..Len(tickLog) :
        /\ UnnamedKept(tickLog[i])
        /\ tickLog[i].final => NamedReached(tickLog[i])

UnnamedKeptAlways == \A i \in 1..Len(tickLog) : UnnamedKept(tickLog[i])

\* The steps waiting in the queue and the one playing.
Enqueued == Range(queue) \cup {tw.params : tw \in tweens}

\* The step as the caller passed it.
Template(q) ==
    CHOOSE p \in KfSteps : p.target = q.target /\ p.useKeyframe = q.useKeyframe

Timing(q) == << q.duration, q.delay, q.easing >>

\* C8: a step with useKeyframe = K and timing of its own is queued with
\* K's duration, delay and easing when responsive mode is enabled and with
\* its own timing when it is disabled, through add and through
\* playSequence (which resolves, then calls add, which resolves again).
C8_KeyframeOverridesWhenResponsive ==
    \A q \in Enqueued :
        q.useKeyframe \in DOMAIN KeyframeTiming =>
            IF isResponsiveMode
            THEN Timing(q) = Timing(KeyframeTiming[q.useKeyframe])
            ELSE Timing(q) = Timing(Template(q))

C8_Witness ==
    /\ isResponsiveMode
    /\ Len(queue) >= 1
    /\ queue[Len(queue)].useKeyframe = "phase2"
    /\ queue[Len(queue)].duration = KeyframeTiming.phase2.duration
    /\ Template(queue[Len(queue)]).duration # KeyframeTiming.phase2.duration
    /\ currentAnimation # Null

Names(table) == {table[i][1] : i \in 1..Len(table)}

\* The widths and breakpoints the documented table resolves to.
DocumentedBreakpoint ==
    (0 :> "mobile") @@ (767 :> "mobile") @@ (768 :> "tablet")
        @@ (1023 :> "tablet") @@ (1440 :> "widescreen")
        @@ (5000 :> "widescreen")

\* C9: the breakpoint is one with the highest minimum width that is <= the
\* viewport width; for the documented table, in any listing order, the
\* documented widths resolve to the documented breakpoints.
C9_HighestQualifyingBreakpoint ==
    LET qualifying == {i \in 1..Len(breakpoints) :
                           breakpoints[i][2] <= innerWidth}
    IN  /\ qualifying # {} =>
              \E i \in qualifying :
                  /\ breakpoints[i][1] = currentBreakpoint
                  /\ \A j \in qualifying :
                        breakpoints[j][2] <= breakpoints[i][2]
        /\ (breakpoints \in Perms(ConfigBreakpoints)
            /\ innerWidth \in DOMAIN DocumentedBreakpoint)
              => currentBreakpoint = DocumentedBreakpoint[innerWidth]

C9_Witness ==
    /\ breakpoints \in Perms(ConfigBreakpoints)
    /\ breakpoints[1][1] = "tablet"
    /\ breakpoints[4][1] = "mobile"
    /\ innerWidth = 1023
    /\ currentBreakpoint = "tablet"

\* C10: for a width below every minimum the breakpoint is the entry with
\* the smallest minimum, and the breakpoint is always a key of the table.
C10_FloorIsSmallestEntry ==
    /\ currentBreakpoint \in Names(breakpoints)
    /\ (\A i \in 1..Len(breakpoints) : innerWidth < breakpoints[i][2]) =>
          \E i \in 1..Len(breakpoints) :
              /\ breakpoints[i][1] = currentBreakpoint
              /\ \A j \in 1..Len(breakpoints) :
                    breakpoints[i][2] <= breakpoints[j][2]

\* C11: in a burst of resize events, each less than 150 ms after the one
\* before, no event re-evaluates the breakpoint; the timer's callback runs
\* 150 ms after the last event, leaves no timer behind, and fires the
\* transition callback once with (new, held before the burst) when the
\* breakpoint changed and not at all when it did not.
C11_BurstFiresOnce ==
    [][/\ (\E width \in BurstWidths : ResizeEvent(width)) =>
              /\ currentBreakpoint' = currentBreakpoint
              /\ callbacks' = callbacks
              /\ resizeTimeout' = DebounceMs
       /\ DebounceFire =>
              /\ sinceEvent = DebounceMs
              /\ resizeTimeout' = Null
              /\ currentBreakpoint' = updateBreakpoint(breakpoints, innerWidth)
              /\ callbacks' =
                    IF currentBreakpoint' # heldBefore
                    THEN Append(callbacks, <<currentBreakpoint', heldBefore>>)
                    ELSE callbacks
       /\ callbacks' # callbacks => resizeTimeout = 0
      ]_vars

C11_Witness ==
    /\ burstLen = MaxEvents
    /\ resizeTimeout = Null
    /\ callbacks = << <<"desktop", "tablet">> >>

\* C12: the vertex positions of every registered mesh are those a single
\* morph from the record's original basis at the current multiplier
\* writes, whatever multipliers came before; at the multiplier in force
\* when the mesh was created they are the forward projection.
C12_MorphDependsOnBasisAndMultiplierOnly ==
    \A i \in DOMAIN projectionData :
        LET data == projectionData[i]
            fresh == projectImage(ImageConfigs[data.imageUrl], data.createdAt)
        IN  /\ data.vertices = updateGeometryForSize(fresh, sizeMultiplier)
            /\ sizeMultiplier = data.createdAt =>
                  data.vertices = fresh.vertices

C12_Witness ==
    /\ Len(projectionData) >= 2
    /\ projectionData[1].createdAt = 50
    /\ projectionData[2].createdAt = 120
    /\ sizeMultiplier = 50
    /\ projectionData[1].imageUrl \in lastMorphed
    /\ projectionData[1].alignment.x # 0

\* C13: the distribution holds one placement per input url, in input
\* order, for every length of the input.
C13_EveryUrlPlacedOnceInOrder ==
    planned =>
        /\ Len(configs) = Len(imageUrls)
        /\ \A i \in 1..Len(configs) : configs[i].imageUrl = imageUrls[i]

\* Twice the distance of band p from the middle of the bands, in bands.
PoleDistance(numParallels, p) ==
    IF 2 * (p + 1) >= numParallels + 1
    THEN 2 * (p + 1) - (numParallels + 1)
    ELSE (numParallels + 1) - 2 * (p + 1)

\* C14: for 29 images, a band nearer a pole is given strictly fewer images
\* than a band nearer the equator.
C14_PolewardBandsGetFewer ==
    (planned /\ Len(imageUrls) = 29) =>
        \A p, q \in 0..(Len(imagesPerParallel) - 1) :
            PoleDistance(Len(imagesPerParallel), p)
                > PoleDistance(Len(imagesPerParallel), q)
              => imagesPerParallel[p + 1] < imagesPerParallel[q + 1]

\* C15: a step without a target object is played as a step that asks for
\* no change: no operation throws, no start fails for want of a target,
\* and once the engine is idle every step enqueued has run to completion.
C15_MissingTargetTolerated ==
    /\ \A f \in failedStarts : f.cause # "target"
    /\ (raised => \E f \in failedStarts : f.cause = "easing")
    /\ (Idle /\ failedStarts = {}) =>
          \A i \in 1..(nextId - 1) : i \in Range(finished) \cup cancelled

\* The current step's tween has run its time.
Due ==
    \E tw \in tweens :
        /\ tw.id = currentAnimation
        /\ tw.t >= tw.params.delay + tw.params.duration

\* A step is current exactly when a tween of the group stands for it, and
\* a step whose start failed is neither queued nor playing.
C16_NotBlocked ==
    /\ currentAnimation # Null <=> \E tw \in tweens : tw.id = currentAnimation
    /\ \A f \in failedStarts :
          f.id \notin Range(IdsOf(queue)) \cup Range(started)

\* An update() that completes the current step takes the head off the
\* queue; when the head's start throws, the completed tween is still due,
\* so that the next update() goes on with what is queued behind.
C16_Progress ==
    (Update /\ Due) =>
        /\ queue # << >> => Len(queue') < Len(queue)
        /\ raised' => (Due' /\ failedStarts' # failedStarts)
        /\ (~raised' /\ queue = << >>) => Idle'
        /\ (~raised' /\ queue # << >>) =>
              \E i \in 1..Len(queue) : queue[i].id \in Range(started')

\* C16: a step whose start throws is skipped and the engine is not left
\* blocked: the steps behind it and the steps added later start and
\* complete under repeated update() calls.
C16_FailedStartIsSkipped == []C16_NotBlocked /\ [][C16_Progress]_vars

C16_Witness ==
    /\ Idle
    /\ [id |-> 2, cause |-> "easing"] \in failedStarts
    /\ {1, 3, 4} \subseteq Range(finished)
    /\ 4 \in Range(completed)

\* C17: when an image of a batch fails to load, its projectImage promise
\* rejects, and every image of the batch that did load is registered (or
\* was, until a dispose released it).
C17_FailedLoadRejects ==
    \A url \in Images :
        /\ loads[url] = "failed" => promises[url] = "rejected"
        /\ loads[url] = "loaded" =>
              /\ promises[url] = "resolved"
              /\ url \in released \cup {projectionData[i].imageUrl :
                                           i \in DOMAIN projectionData}

\* C18: once the projector is disposed the registry is empty and stays so:
\* every record that was registered has had its geometry released and its
\* mesh taken off the sphere, a load that finishes later registers nothing,
\* and setSizeMultiplier morphs nothing.
C18_DisposeEmptiesRegistry ==
    ~projectorSphere =>
        /\ projectionData = << >>
        /\ sphereMeshes = {}
        /\ lastMorphed = {}
        /\ Range(projectedMeshes) \subseteq released

C18_Witness ==
    /\ ~projectorSphere
    /\ lateMorph
    /\ \E url \in Images : loads[url] = "threw"
    /\ \E url \in Images : url \in released

\* C19: destroy() never throws, and when one cleanup operation throws a
\* warning is logged and every other cleanup operation is carried out.
C19_DestroyCarriesOutEveryCleanup ==
    destroyed =>
        /\ ~raised
        /\ cleanups = CleanupOps \ {failedCleanup}
        /\ failedCleanup # "none" => warnings # {}

\* C20: after a destroy() in which nothing threw, no step is started or
\* advanced, no transition callback runs, and neither the completion
\* callback nor the trail-clear interval fires.
C20_NothingHappensAfterDestroy ==
    [][(destroyed /\ failedCleanup = "none") =>
          /\ started' = started
          /\ finished' = finished
          /\ completed' = completed
          /\ target' = target
          /\ sizeMultiplier' = sizeMultiplier
          /\ rotationSpeed' = rotationSpeed
          /\ currentBreakpoint' = currentBreakpoint
          /\ callbacks' = callbacks
          /\ callbackTimer' = callbackTimer
          /\ trailClears' = trailClears]_vars

\* C21: the callback passed to initiateGlobe is invoked once, and when it
\* is invoked the animation sequence has completed: the engine has no
\* current step and an empty queue.
C21_CallbackAfterSequenceCompleted ==
    [][/\ callbackTimer = "fired" => callbackTimer' = "fired"
       /\ (callbackTimer = "armed" /\ callbackTimer' = "fired") =>
             (Idle /\ started # << >>)]_vars

\* C22: the size multiplier and the continuous rotation speed are written
\* by the tick of the current step only: whenever either cell changes, an
\* update() ticked the step that was current, and the cell holds what that
\* tick left.
C22_OnlyTheActiveStepWrites ==
    [][(sizeMultiplier' # sizeMultiplier \/ rotationSpeed' # rotationSpeed) =>
          /\ currentAnimation # Null
          /\ tickLog' # << >>
          /\ \E i \in 1..Len(tickLog') :
                /\ tickLog'[i].imageScale = sizeMultiplier'
                /\ tickLog'[i].rotationSpeed = rotationSpeed']_vars

\* C23: no tick of a step writes the target's rotation.y: it always holds
\* what the continuous rotation of the render loop wrote last, also while
\* and after a step whose target names rotation.y.
C23_StepsNeverWriteRotationY ==
    target.rotation.y = continuousRotation

\* StepB, whose target names rotation.y, has run to its end between frames.
C23_Witness ==
    /\ Idle
    /\ finished # << >>
    /\ target.rotation.x = StepB.target.rotation.x
    /\ continuousRotation > 0
    /\ continuousRotation # StepB.target.rotation.y

Registered == {projectionData[i].imageUrl : i \in DOMAIN projectionData}

\* A morph pass at multiplier m: every registered record, each once.
MorphedAt(m) ==
    /\ projectionData' = reprojectAllImages(projectionData, m)
    /\ lastMorphed' = Registered

NoMorph ==
    /\ projectionData' = projectionData
    /\ lastMorphed' = {}

\* C24: a morph pass runs only when the size multiplier changes. A call
\* setSizeMultiplier(v) with v the current multiplier morphs nothing, a
\* tick whose imageScale is that of the previous tick morphs nothing, and
\* a call or tick that changes the multiplier morphs every registered
\* record once.
C24_MorphOnlyOnChange ==
    [][/\ \A m \in MorphValues :
             SetSizeMultiplier(m) =>
                IF m = sizeMultiplier THEN NoMorph
                ELSE MorphedAt(m) /\ sizeMultiplier' = m
       /\ \A v \in MorphValues :
             ImageScaleTick(v) =>
                /\ (v = lastImageScale \/ v = sizeMultiplier) =>
                      (NoMorph /\ sizeMultiplier' = sizeMultiplier)
                /\ (v # lastImageScale /\ v # sizeMultiplier) =>
                      (MorphedAt(v) /\ sizeMultiplier' = v)
       /\ sizeMultiplier' = sizeMultiplier =>
             /\ lastMorphed' \in {lastMorphed, {}}
             /\ \A i \in DOMAIN projectionData :
                   projectionData'[i] = projectionData[i]]_vars

C24_Witness ==
    /\ Len(projectionData) = 2
    /\ lastMorphed = Registered
    /\ sizeMultiplier = 120
    /\ lastImageScale = 50

\* The final tick left the target and the side channels at the end values
\* of the step: its start snapshot overlaid with what its target names.
FinalState(o) ==
    LET valuesEnd == TargetState(o.valuesStart, o.named)
    IN  /\ o.target.scale = valuesEnd.scale
        /\ o.target.position = valuesEnd.position
        /\ o.target.rotation.x = valuesEnd.rotation.x
        /\ o.target.rotation.z = valuesEnd.rotation.z
        /\ o.imageScale = valuesEnd.imageScale
        /\ o.rotationSpeed = valuesEnd.rotationSpeed

\* An update() before the delay is over writes nothing; one before the
\* delay and the duration are over does not complete the step; the first
\* one after they are over completes it and fires its callback.
C25_Timing ==
    \A tw \in tweens :
        (Update /\ tw.id = currentAnimation) =>
            /\ tw.t < tw.params.delay =>
                  /\ target' = target
                  /\ sizeMultiplier' = sizeMultiplier
                  /\ rotationSpeed' = rotationSpeed
            /\ tw.t < tw.params.delay + tw.params.duration =>
                  tw.id \notin Range(finished')
            /\ tw.t >= tw.params.delay + tw.params.duration =>
                  /\ tw.id \in Range(finished')
                  /\ tw.id \in withCallback => tw.id \in Range(completed')

\* C25: a step writes nothing before its delay is over and completes at
\* the first update() after delay + duration; however many update() calls
\* came in between, the completing tick leaves the step's end values and
\* the completions keep their order.
C25_WallClockNotFrames ==
    /\ [](\A i \in 1..Len(tickLog) :
             tickLog[i].final => FinalState(tickLog[i]))
    /\ [](\A i, j \in 1..Len(finished) : i < j => finished[i] < finished[j])
    /\ [][C25_Timing]_vars

RECURSIVE SumOf(_)
SumOf(counts) == IF counts = << >> THEN 0 ELSE Head(counts) + SumOf(Tail(counts))

\* What the first pass leaves unplaced of the urls handed over.
Leftover ==
    LET numParallels == NumParallels(Len(imageUrls))
    IN  FirstPass(numParallels, [p \in 1..numParallels |-> 0],
                  Len(imageUrls), 0).remainingImages

\* C26: when the first pass leaves images unplaced, the top-up pass gives
\* every band a capacity computed with a larger multiplier, at least the
\* band's first-pass capacity, and the leftover images all go to the bands.
C26_TopUpRaisesCapacity ==
    (planned /\ Leftover > 0) =>
        LET numParallels == NumParallels(Len(imageUrls))
        IN  /\ BASE_PARALLEL_MULTIPLIER > BASE_IMAGES_PER_PARALLEL
            /\ \A parallel \in 0..(numParallels - 1) :
                  MaxImagesInParallel(BASE_PARALLEL_MULTIPLIER,
                                      numParallels, parallel)
                     >= MaxImagesInParallel(BASE_IMAGES_PER_PARALLEL,
                                            numParallels, parallel)
            /\ SumOf(imagesPerParallel) = Len(imageUrls)

\* C27: every queued step starts and completes under update() alone.  The
\* tween group is all that update() advances and starts steps from, so a
\* queued step always has a current step with a tween in the group ahead of
\* it: no step waits in the queue of an engine that is otherwise at rest.
C27_EveryQueuedStepCompletes ==
    queue # << >> => (currentAnimation # Null /\ tweens # {})

\* C28: the completing tick of a step whose target names imageScale leaves
\* the projector's size multiplier at that value, and one whose target names
\* rotationSpeed leaves the globe's speed at that value, whatever was
\* written to either cell from outside while the step played.
C28_FinalWriteNeverSuppressed ==
    \A i \in 1..Len(tickLog) :
        tickLog[i].final =>
            /\ Has(tickLog[i].named, "imageScale")
                  => tickLog[i].imageScale = tickLog[i].named.imageScale
            /\ Has(tickLog[i].named, "rotationSpeed")
                  => tickLog[i].rotationSpeed = tickLog[i].named.rotationSpeed

\* C29: however the image loads and the setSizeMultiplier calls interleave,
\* every registered mesh has the vertex positions its projection at the
\* current size multiplier has; a mesh registered by a load that finishes
\* after the multiplier changed is created at the multiplier then in force.
C29_MeshesFollowCurrentMultiplier ==
    /\ [](\A i \in DOMAIN projectionData :
             projectionData[i].vertices =
                 projectImage(ImageConfigs[projectionData[i].imageUrl],
                              sizeMultiplier).vertices)
    /\ [][Len(projectionData') > Len(projectionData) =>
              projectionData'[Len(projectionData')].createdAt = sizeMultiplier]_vars

C29_Witness ==
    /\ Len(projectionData) >= 2
    /\ projectionData[1].createdAt = 100
    /\ projectionData[2].createdAt = 30
    /\ projectionData[2].alignment.x # 0
    /\ sizeMultiplier = 120
    /\ lastMorphed = {projectionData[i].imageUrl : i \in DOMAIN projectionData}

\* The steps of the p-th playSequence call had all finished when n steps
\* had finished.
PlayFinished(p, n) ==
    \A id \in played[p].first..played[p].last :
        \E j \in 1..n : j <= Len(finished) /\ finished[j] = id

\* C30: the sequence-completion callbacks run once for a playSequence call
\* that no stop() follows, and only when the last step of that sequence has
\* completed: never earlier, whether steps added before are still queued or
\* the same array is played again.
C30_SequenceCallbacksOnceAfterLastStep ==
    /\ \A k \in DOMAIN sequenceCompletions :
          PlayFinished(sequenceCompletions[k].play,
                       sequenceCompletions[k].after)
    /\ \A k, l \in DOMAIN sequenceCompletions :
          sequenceCompletions[k].play = sequenceCompletions[l].play => k = l
    /\ \A p \in DOMAIN played :
          (~played[p].stopped /\ PlayFinished(p, Len(finished)))
              => \E k \in DOMAIN sequenceCompletions :
                     sequenceCompletions[k].play = p

====
